---------------------------- MODULE Spec2Model ----------------------------
(***************************************************************************)
(* Model of Pose2Sim's camera calibration (Pose2Sim/calibration.py) and of *)
(* the reprojection utility (Pose2Sim/Utilities/reproj_from_trc_calib.py). *)
(*                                                                         *)
(* Floating-point values are carried exactly: a parameter is an integer    *)
(* (a float with that value), a quotient is a normalised fraction whose    *)
(* denominator 0 stands for the non-finite results of numpy's division.    *)
(* Rotation vectors are carried in units of a quarter turn (pi/2) about a  *)
(* coordinate axis, the domain on which cv2.Rodrigues is tabulated here.   *)
(* Text written to the calibration file is a sequence of one-character     *)
(* strings.                                                                *)
(***************************************************************************)
EXTENDS Integers, Sequences, FiniteSets, TLC

(***************************************************************************)
(* Bounds of the model                                                     *)
(***************************************************************************)
\* largest number of cameras (camera directories, cameras of a vendor file)
MaxCams == 2
\* largest number of frames of a trajectory file
MaxFrames == 2

(***************************************************************************)
(* Sequences                                                               *)
(***************************************************************************)
\* [s[c] for c in idx]   (idx holds 1-based positions)
Pick(s, idx) == [i \in 1..Len(idx) |-> s[idx[i]]]

\* list.index(x): the first position of x in s
IndexOf(s, x) == CHOOSE i \in 1..Len(s) : s[i] = x /\ \A j \in 1..(i-1) : s[j] # x

RECURSIVE SumSeq(_)
SumSeq(s) == IF s = <<>> THEN 0 ELSE Head(s) + SumSeq(Tail(s))

\* the sequences without repetition over the set S, of length at most n
DistinctSeqs(S, n) ==
    {s \in UNION {[1..k -> S] : k \in 0..n} :
        \A i, j \in 1..Len(s) : i # j => s[i] # s[j]}

(***************************************************************************)
(* Numbers: numpy's float arithmetic on the values of the model            *)
(***************************************************************************)
Abs(x) == IF x < 0 THEN -x ELSE x

Sign(x) == IF x > 0 THEN 1 ELSE IF x < 0 THEN -1 ELSE 0

RECURSIVE GCD(_, _)
GCD(a, b) == IF b = 0 THEN a ELSE GCD(b, a % b)

\* the fraction n/d in lowest terms, d > 0
Frac(n, d) ==
    LET g == GCD(Abs(n), Abs(d))
        s == Sign(d)
    IN  [n |-> (s * n) \div g, d |-> Abs(d) \div g]

\* a / b on floats: b = 0 gives inf, -inf or nan (d = 0) and raises nothing
FDiv(a, b) == IF b = 0 THEN [n |-> Sign(a), d |-> 0] ELSE Frac(a, b)

FInt(x) == [n |-> x, d |-> 1]

IsFinite(q) == q.d # 0

NaN == [n |-> 0, d |-> 0]

\* p - q, p + q, p * q on floats (a non-finite operand gives a non-finite result)
FSub(p, q) ==
    IF IsFinite(p) /\ IsFinite(q) THEN Frac(p.n * q.d - q.n * p.d, p.d * q.d)
    ELSE IF IsFinite(q) THEN p
    ELSE IF IsFinite(p) THEN [n |-> -q.n, d |-> 0]
    ELSE IF p.n = -q.n /\ p.n # 0 THEN p ELSE NaN

FAdd(p, q) == FSub(p, [n |-> -q.n, d |-> q.d])

FMul(p, q) ==
    IF IsFinite(p) /\ IsFinite(q) THEN Frac(p.n * q.n, p.d * q.d)
    ELSE [n |-> Sign(p.n) * Sign(q.n), d |-> 0]

RECURSIVE FSum(_)
FSum(s) == IF s = <<>> THEN FInt(0) ELSE FAdd(Head(s), FSum(Tail(s)))

\* row . Q for a row and a vector of the same length
RECURSIVE Dot(_, _)
Dot(u, v) == IF u = <<>> THEN 0 ELSE Head(u) * Head(v) + Dot(Tail(u), Tail(v))

\* A . B for matrices given as sequences of rows
MatMul(A, B) ==
    [i \in 1..Len(A) |-> [j \in 1..Len(B[1]) |->
        SumSeq([k \in 1..Len(B) |-> A[i][k] * B[k][j]])]]

Transpose(A) == [j \in 1..Len(A[1]) |-> [i \in 1..Len(A) |-> A[i][j]]]

(***************************************************************************)
(* Text of the calibration file: Python's str() of a float and the TOML    *)
(* reader's conversion back                                                *)
(***************************************************************************)
DigitChars == <<"0", "1", "2", "3", "4", "5", "6", "7", "8", "9">>

IsDigit(c) == \E i \in 1..10 : DigitChars[i] = c

DigitVal(c) == (CHOOSE i \in 1..10 : DigitChars[i] = c) - 1

\* the decimal digits of n >= 0, most significant first
RECURSIVE Digits(_)
Digits(n) == IF n < 10 THEN <<DigitChars[n + 1]>>
             ELSE Append(Digits(n \div 10), DigitChars[(n % 10) + 1])

\* f'{x}' for a float x of integer value: "-12.0"
FormatFloat(x) ==
    (IF x < 0 THEN <<"-">> ELSE <<>>) \o Digits(Abs(x)) \o <<".", "0">>

\* f'{x:02d}' for an int x >= 0
FormatInt02(x) == IF x < 10 THEN <<"0">> \o Digits(x) ELSE Digits(x)

RECURSIVE DigitsVal(_)
DigitsVal(t) == IF t = <<>> THEN 0
                ELSE 10 * DigitsVal(SubSeq(t, 1, Len(t) - 1)) + DigitVal(t[Len(t)])

\* whether t is a TOML float the reader accepts: [-]digits.digits
IsFloatText(t) ==
    LET u == IF t # <<>> /\ t[1] = "-" THEN Tail(t) ELSE t
    IN  \E p \in 2..(Len(u) - 1) :
            /\ u[p] = "."
            /\ \A i \in 1..Len(u) : i # p => IsDigit(u[i])

\* the value the TOML reader gives a float of the form above whose fraction is zero
ParseFloat(t) ==
    LET neg == t[1] = "-"
        u   == IF neg THEN Tail(t) ELSE t
        p   == CHOOSE i \in 1..Len(u) : u[i] = "."
        v   == DigitsVal(SubSeq(u, 1, p - 1))
    IN  IF neg THEN -v ELSE v

(***************************************************************************)
(* numpy arrays whose shape matters: a rotation is a 3x3 matrix or, after  *)
(* cv2.Rodrigues, a 3-vector.  data is row-major.                          *)
(***************************************************************************)
Vec(v) == [shape |-> <<Len(v)>>, data |-> v]

Mat(m) == [shape |-> <<Len(m), Len(m[1])>>, data |-> m[1] \o m[2] \o m[3]]

\* the rows of a 3x3 array
Rows(a) == [i \in 1..3 |-> SubSeq(a.data, 3 * i - 2, 3 * i)]

\* a[i]: an element of a vector (shape <<>>), a row of a matrix (shape <<3>>)
Item(a, i) ==
    IF Len(a.shape) = 1 THEN [shape |-> <<>>, data |-> <<a.data[i]>>]
    ELSE [shape |-> Tail(a.shape),
          data  |-> SubSeq(a.data, a.shape[2] * (i - 1) + 1, a.shape[2] * i)]

\* f'{a}' for an array element: a float, or numpy's "[1. 0. 0.]" for a row
FormatItem(a) ==
    IF a.shape = <<>> THEN FormatFloat(a.data[1])
    ELSE <<"[">> \o FormatFloat(a.data[1]) \o <<" ">> \o FormatFloat(a.data[2])
               \o <<" ">> \o FormatFloat(a.data[3]) \o <<"]">>

(***************************************************************************)
(* cv2.Rodrigues, tabulated on rotations about one coordinate axis by      *)
(* multiples of a quarter turn                                             *)
(***************************************************************************)
Cos4(k) == CASE k % 4 = 0 -> 1 [] k % 4 = 2 -> -1 [] OTHER -> 0

Sin4(k) == CASE k % 4 = 1 -> 1 [] k % 4 = 3 -> -1 [] OTHER -> 0

\* cv2.Rodrigues(vector)[0]: the rotation matrix of a rotation vector
RodriguesMat(v) ==
    LET k == v[1] + v[2] + v[3]
        c == Cos4(k)
        s == Sin4(k)
    IN  IF v[2] = 0 /\ v[3] = 0 THEN <<<<1, 0, 0>>, <<0, c, -s>>, <<0, s, c>>>>
        ELSE IF v[1] = 0 /\ v[3] = 0 THEN <<<<c, 0, s>>, <<0, 1, 0>>, <<-s, 0, c>>>>
        ELSE <<<<c, -s, 0>>, <<s, c, 0>>, <<0, 0, 1>>>>

AxisVectors == {<<k, 0, 0>> : k \in -1..2} \cup {<<0, k, 0>> : k \in -1..2}
                   \cup {<<0, 0, k>> : k \in -1..2}

\* cv2.Rodrigues(matrix)[0]: the rotation vector (angle in (-pi, pi]) of a matrix
RodriguesVec(m) == CHOOSE v \in AxisVectors : RodriguesMat(v) = m

(***************************************************************************)
(* The persisted calibration file.  A file is its camera blocks, in the    *)
(* order written, and the metadata blocks that follow them; every value is *)
(* the text written for it.                                                *)
(***************************************************************************)
NoFile == [cams |-> <<>>, meta |-> <<>>]

ZeroText == <<"0", ".", "0">>

OneText == <<"1", ".", "0">>

\* whether toml_write can format block c: every list holds an entry c with the
\* elements the f-strings index (an IndexError otherwise)
Writable(c, S, D, K, R, T) ==
    /\ c <= Len(S) /\ Len(S[c]) >= 2
    /\ c <= Len(K)
    /\ c <= Len(D) /\ Len(D[c]) >= 4
    /\ c <= Len(R) /\ R[c].shape[1] >= 3
    /\ c <= Len(T) /\ Len(T[c]) >= 3

\* a camera block whose principal point is written with cx and cy exchanged
CamBlockSwappedCenter(c, C, S, D, K, R, T) ==
    [key         |-> <<"cam_">> \o FormatInt02(c),
     name        |-> C[c],
     size        |-> <<FormatFloat(S[c][1]), FormatFloat(S[c][2])>>,
     matrix      |-> <<<<FormatFloat(K[c][1][1]), ZeroText, FormatFloat(K[c][2][3])>>,
                       <<ZeroText, FormatFloat(K[c][2][2]), FormatFloat(K[c][1][3])>>,
                       <<ZeroText, ZeroText, OneText>>>>,
     distortions |-> [k \in 1..4 |-> FormatFloat(D[c][k])],
     rotation    |-> [k \in 1..3 |-> FormatItem(Item(R[c], k))],
     translation |-> [k \in 1..3 |-> FormatFloat(T[c][k])],
     fisheye     |-> "false"]

\* the text toml_write writes for camera c (c counts from 1)
CamBlock(c, C, S, D, K, R, T) ==
    [key         |-> <<"cam_">> \o FormatInt02(c),
     name        |-> C[c],
     size        |-> <<FormatFloat(S[c][1]), FormatFloat(S[c][2])>>,
     matrix      |-> <<<<FormatFloat(K[c][1][1]), ZeroText, FormatFloat(K[c][1][3])>>,
                       <<ZeroText, FormatFloat(K[c][2][2]), FormatFloat(K[c][2][3])>>,
                       <<ZeroText, ZeroText, OneText>>>>,
     distortions |-> [k \in 1..4 |-> FormatFloat(D[c][k])],
     rotation    |-> [k \in 1..3 |-> FormatItem(Item(R[c], k))],
     translation |-> [k \in 1..3 |-> FormatFloat(T[c][k])],
     fisheye     |-> "false"]

MetaBlock == [key |-> <<"metadata">>, adjusted |-> "false", error |-> ZeroText]

\* the number of blocks written before the loop ends or an index fails
RECURSIVE WrittenBlocks(_, _, _, _, _, _, _)
WrittenBlocks(c, C, S, D, K, R, T) ==
    IF c > Len(C) \/ ~Writable(c, S, D, K, R, T) THEN c - 1
    ELSE WrittenBlocks(c + 1, C, S, D, K, R, T)

\* toml_write: the file left on disk (opened with 'w+', so any earlier content is
\* gone) and whether the call raised before the metadata block
TomlWrite(C, S, D, K, R, T) ==
    LET n == WrittenBlocks(1, C, S, D, K, R, T)
    IN  [file   |-> [cams |-> [c \in 1..n |-> CamBlock(c, C, S, D, K, R, T)],
                     meta |-> IF n = Len(C) THEN <<MetaBlock>> ELSE <<>>],
         raised |-> n < Len(C)]

\* whether toml.load accepts every value of a camera block
BlockParses(b) ==
    /\ \A k \in 1..Len(b.size) : IsFloatText(b.size[k])
    /\ \A r \in 1..3 : \A k \in 1..3 : IsFloatText(b.matrix[r][k])
    /\ \A k \in 1..Len(b.distortions) : IsFloatText(b.distortions[k])
    /\ \A k \in 1..Len(b.rotation) : IsFloatText(b.rotation[k])
    /\ \A k \in 1..Len(b.translation) : IsFloatText(b.translation[k])

\* the table toml.load gives one camera block
ParseBlock(b) ==
    [key         |-> b.key,
     name        |-> b.name,
     size        |-> [k \in 1..Len(b.size) |-> ParseFloat(b.size[k])],
     matrix      |-> [r \in 1..3 |-> [k \in 1..3 |-> ParseFloat(b.matrix[r][k])]],
     distortions |-> [k \in 1..Len(b.distortions) |-> ParseFloat(b.distortions[k])],
     rotation    |-> [k \in 1..Len(b.rotation) |-> ParseFloat(b.rotation[k])],
     translation |-> [k \in 1..Len(b.translation) |-> ParseFloat(b.translation[k])],
     fisheye     |-> b.fisheye = "true"]

\* toml.load: the tables in file order; the camera tables are the keys other
\* than 'metadata' (ok is false when the reader raises)
TomlLoad(f) ==
    LET ok == \A c \in 1..Len(f.cams) : BlockParses(f.cams[c])
    IN  [ok   |-> ok,
         cams |-> IF ok THEN [c \in 1..Len(f.cams) |-> ParseBlock(f.cams[c])] ELSE <<>>]

(***************************************************************************)
(* An error (a residual, an RMS) e is carried as the exact value of e^2.   *)
(***************************************************************************)
ErrOf(x) == FInt(x * x)

(***************************************************************************)
(* Camera names: an optional prefix "cam_" followed by decimal digits      *)
(***************************************************************************)
CamName(txt) == <<"cam_">> \o txt

\* the key natural_sort compares: the text chunk, then the digits as a number
NaturalKey(name) ==
    IF name[1] = "cam_" THEN <<1, DigitsVal(Tail(name))>> ELSE <<0, DigitsVal(name)>>

KeyLess(a, b) == a[1] < b[1] \/ (a[1] = b[1] /\ a[2] < b[2])

\* s with x put after the last element whose key is not greater (s is sorted)
RECURSIVE InsertSorted(_, _)
InsertSorted(s, x) ==
    IF s = <<>> THEN <<x>>
    ELSE IF KeyLess(NaturalKey(x), NaturalKey(Head(s))) THEN <<x>> \o s
    ELSE <<Head(s)>> \o InsertSorted(Tail(s), x)

\* natural_sort: the names in ascending digit-aware order (sorted() is stable)
RECURSIVE natural_sort(_)
natural_sort(s) ==
    IF s = <<>> THEN <<>>
    ELSE InsertSorted(natural_sort(SubSeq(s, 1, Len(s) - 1)), s[Len(s)])

(***************************************************************************)
(* The conversions of Pose2Sim.common used on vendor extrinsics            *)
(***************************************************************************)
\* RT_qca2cv: the inverse rigid transform, R' = R^T, T' = -R^T . T
RT_qca2cv(r, t) ==
    LET rt == Transpose(Rows(r))
    IN  <<Mat(rt), [k \in 1..3 |-> -Dot(rt[k], t)]>>

\* rotate_cam with ang_x = pi: a half turn about X composed into the transform
rotate_cam(r, t) ==
    LET ax == RodriguesMat(<<2, 0, 0>>)
    IN  <<Mat(MatMul(ax, Rows(r))), [k \in 1..3 |-> Dot(ax[k], t)]>>

\* quat2mat(quat, scalar_idx=3): the rotation matrix of the quaternion (x, y, z, w)
quat2mat(q) ==
    LET x == q[1]
        y == q[2]
        z == q[3]
        w == q[4]
    IN  Mat(<<<<1 - 2 * (y * y + z * z), 2 * (x * y - z * w), 2 * (x * z + y * w)>>,
              <<2 * (x * y + z * w), 1 - 2 * (x * x + z * z), 2 * (y * z - x * w)>>,
              <<2 * (x * z - y * w), 2 * (y * z + x * w), 1 - 2 * (x * x + y * y)>>>>)

(***************************************************************************)
(* Vendor calibration files.  A camera element is its name (serial or      *)
(* device id), its model and a marker m; every numeric attribute of the    *)
(* element is a function of the marker, so a value found in the output     *)
(* names the camera it was read from.                                      *)
(***************************************************************************)
VideoModels == {"Miqus Video", "Miqus Video UnderWater", "none"}

CameraModels == {"Miqus Video", "none", "Oqus"}

VendorNames == {CamName(<<"1">>), CamName(<<"2">>), CamName(<<"1", "0">>)}

\* the files of at most MaxCams cameras; camera i of a file carries marker i
VendorFiles ==
    {[i \in 1..Len(nm) |-> [name |-> nm[i][1], model |-> nm[i][2], m |-> i]] :
        nm \in UNION {[1..k -> VendorNames \X CameraModels] : k \in 0..MaxCams}}

\* Qualisys attributes of the camera with marker m
QcaResidual(m) == m
QcaFov(m) == [left |-> m, right |-> m + 128 * m - 1, top |-> 2 * m, bottom |-> 2 * m + 64 * m - 1]
QcaIntrinsic(m) ==
    [radialDistortion1 |-> 128 * m, radialDistortion2 |-> 256 * m,
     tangentalDistortion1 |-> 384 * m, tangentalDistortion2 |-> 512 * m,
     focalLengthU |-> 128 * (10 + m), focalLengthV |-> 128 * (20 + m),
     centerPointU |-> 128 * (30 + m), centerPointV |-> 128 * (40 + m)]
QcaTransform(m) ==
    [x |-> 1000 * m, y |-> 2000 * m, z |-> 3000 * m, r |-> RodriguesMat(<<m % 4, 0, 0>>)]

\* Vicon attributes of the camera with marker m
ViconSensorSize(m) == <<100 * m, 50 * m>>
ViconWorldError(m) == m
ViconHasRadial2(m) == m % 2 = 1
ViconRadial2(m) == <<0, 30 + m, 40 + m, m, 2 * m, 3 * m>>
ViconRadial(m) == <<5 * m, 6 * m>>
ViconFocalLength(m) == 2 * (10 + m)
ViconPixelAspectRatio(m) == 1 + (m % 2)
ViconPrincipalPoint(m) == <<30 + m, 40 + m>>
ViconOrientation(m) ==
    CASE m % 4 = 0 -> <<0, 0, 0, 1>> [] m % 4 = 1 -> <<1, 0, 0, 0>>
      [] m % 4 = 2 -> <<0, 1, 0, 0>> [] OTHER -> <<0, 0, 1, 0>>
ViconPosition(m) == <<1000 * m, 2000 * m, 3000 * m>>

\* a list of results of a reader or a calibration function
Lists(ret, C, S, D, K, R, T) ==
    [ret |-> ret, C |-> C, S |-> S, D |-> D, K |-> K, R |-> R, T |-> T]

\* the positions, in output order, of the cameras a reader keeps: the video
\* cameras by natural order of their names (list.index gives the first camera
\* of a name)
NaturalOrder(C, vid_id) ==
    LET C_vid    == Pick(C, vid_id)
        sorted   == natural_sort(C_vid)
        C_vid_id == [k \in 1..Len(sorted) |-> IndexOf(C_vid, sorted[k])]
    IN  Pick(vid_id, C_vid_id)

\* a reader whose model test keeps every camera
AnyModel(cam) == TRUE

IsVideo(cam) == cam.model \in VideoModels

\* vid_id of read_qca: the positions of the cameras of a video model, ascending
RECURSIVE VideoPositions(_, _)
VideoPositions(xml, i) ==
    IF i > Len(xml) THEN <<>>
    ELSE (IF IsVideo(xml[i]) THEN <<i>> ELSE <<>>) \o VideoPositions(xml, i + 1)

\* vid_id of read_vicon: the position of every camera
AllPositions(xml) == [i \in 1..Len(xml) |-> i]

\* read_qca: the lists of the video cameras of a Qualisys file, by natural order
read_qca(xml, binning_factor) ==
    LET n      == Len(xml)
        ret    == [i \in 1..n |-> ErrOf(QcaResidual(xml[i].m))]
        C      == [i \in 1..n |-> xml[i].name]
        vid_id == VideoPositions(xml, 1)
        S      == [i \in 1..n |->
                     LET f == QcaFov(xml[i].m)
                     IN  <<(f.right - f.left + 1) \div binning_factor,
                           (f.bottom - f.top + 1) \div binning_factor>>]
        D      == [i \in 1..n |->
                     LET t == QcaIntrinsic(xml[i].m)
                     IN  <<(t.radialDistortion1 \div 64) \div binning_factor,
                           (t.radialDistortion2 \div 64) \div binning_factor,
                           (t.tangentalDistortion1 \div 64) \div binning_factor,
                           (t.tangentalDistortion2 \div 64) \div binning_factor>>]
        K      == [i \in 1..n |->
                     LET t  == QcaIntrinsic(xml[i].m)
                         f  == QcaFov(xml[i].m)
                         fu == (t.focalLengthU \div 64) \div binning_factor
                         fv == (t.focalLengthV \div 64) \div binning_factor
                         cu == (t.centerPointU \div 64) \div binning_factor - f.left
                         cv == (t.centerPointV \div 64) \div binning_factor - f.top
                     IN  <<<<fu, 0, cu>>, <<0, fv, cv>>, <<0, 0, 1>>>>]
        R      == [i \in 1..n |-> Mat(Transpose(QcaTransform(xml[i].m).r))]
        T      == [i \in 1..n |->
                     LET t == QcaTransform(xml[i].m)
                     IN  <<t.x \div 1000, t.y \div 1000, t.z \div 1000>>]
        C_id   == NaturalOrder(C, vid_id)
    IN  Lists(Pick(ret, C_id), Pick(C, C_id), Pick(S, C_id), Pick(D, C_id),
              Pick(K, C_id), Pick(R, C_id), Pick(T, C_id))

\* read_vicon: the lists of the cameras of a Vicon file, by natural order; the
\* model test is commented out and ret is not reordered
read_vicon(xml) ==
    LET n      == Len(xml)
        C      == [i \in 1..n |-> xml[i].name]
        S      == [i \in 1..n |-> ViconSensorSize(xml[i].m)]
        ret    == [i \in 1..n |-> ErrOf(ViconWorldError(xml[i].m))]
        vid_id == AllPositions(xml)
        D      == [i \in 1..n |->
                     LET m    == xml[i].m
                         dist == IF ViconHasRadial2(m) THEN SubSeq(ViconRadial2(m), 4, 5)
                                 ELSE ViconRadial(m)
                     IN  dist \o <<0, 0>>]
        K      == [i \in 1..n |->
                     LET m  == xml[i].m
                         fu == ViconFocalLength(m)
                         fv == fu \div ViconPixelAspectRatio(m)
                         cc == ViconPrincipalPoint(m)
                     IN  <<<<fu, 0, cc[1]>>, <<0, fv, cc[2]>>, <<0, 0, 1>>>>]
        R      == [i \in 1..n |-> quat2mat(ViconOrientation(xml[i].m))]
        T      == [i \in 1..n |->
                     LET t == ViconPosition(xml[i].m)
                     IN  <<t[1] \div 1000, t[2] \div 1000, t[3] \div 1000>>]
        C_id   == NaturalOrder(C, vid_id)
    IN  Lists(ret, Pick(C, C_id), Pick(S, C_id), Pick(D, C_id),
              Pick(K, C_id), Pick(R, C_id), Pick(T, C_id))

\* R = [np.array(cv2.Rodrigues(r)[0]).flatten() for r in R]
ToRodrigues(R) == [i \in 1..Len(R) |-> Vec(RodriguesVec(Rows(R[i])))]

\* calib_qca_fun: read_qca, then camera view to object view, a half turn about
\* X, and rotations as Rodrigues vectors
calib_qca_fun(xml, binning_factor) ==
    LET l   == read_qca(xml, binning_factor)
        RT1 == [i \in 1..Len(l.R) |-> RT_qca2cv(l.R[i], l.T[i])]
        RT2 == [i \in 1..Len(RT1) |-> rotate_cam(RT1[i][1], RT1[i][2])]
        R   == ToRodrigues([i \in 1..Len(RT2) |-> RT2[i][1]])
        T   == [i \in 1..Len(RT2) |-> RT2[i][2]]
    IN  Lists(l.ret, l.C, l.S, l.D, l.K, R, T)

\* calib_vicon_fun: read_vicon, then camera view to object view and rotations
\* as Rodrigues vectors
calib_vicon_fun(xml) ==
    LET l   == read_vicon(xml)
        RT1 == [i \in 1..Len(l.R) |-> RT_qca2cv(l.R[i], l.T[i])]
        R   == ToRodrigues([i \in 1..Len(RT1) |-> RT1[i][1]])
        T   == [i \in 1..Len(RT1) |-> RT1[i][2]]
    IN  Lists(l.ret, l.C, l.S, l.D, l.K, R, T)

(***************************************************************************)
(* Board calibration: what the vision kernel returns for the images of the *)
(* physical camera id (a function of the images, hence of the camera)      *)
(***************************************************************************)
CamIds == 1..MaxCams

\* the listings os.walk can give a root: absent, or its camera directories
DirListings ==
    {[present |-> FALSE, cams |-> <<>>]}
        \cup {[present |-> TRUE, cams |-> c] : c \in DistinctSeqs(CamIds, MaxCams)}

\* cv2.calibrateCamera on the accepted images of camera id, with CALIB_FIX_K3:
\* the RMS, the camera matrix and the five distortion coefficients
calibrateCamera(id) ==
    [ret  |-> ErrOf(id),
     mtx  |-> <<<<10 * id, 0, 3 * id>>, <<0, 10 * id, 2 * id>>, <<0, 0, 1>>>>,
     dist |-> <<id, 2 * id, 3 * id, 4 * id, 0>>]

\* img.shape[:-1] of an image of camera id: (h, w)
ImageShape(id) == <<4 * id, 6 * id>>

\* the object points of the extrinsics board: extrinsics_corners_nb = [2, 2]
\* corners, extrinsics_square_size apart, in the plane z = 0
extrinsics_square_size == 5

BoardPoints ==
    <<<<0, 0, 0>>, <<extrinsics_square_size, 0, 0>>,
      <<0, extrinsics_square_size, 0>>,
      <<extrinsics_square_size, extrinsics_square_size, 0>>>>

\* cv2.solvePnP on the first extrinsics image of camera id: rvec and tvec
solvePnP(id) == [r |-> <<2 * (id % 2), 0, 0>>, t |-> <<-id, 0, 5>>]

\* a projection matrix whose last column is T, not K . T
ProjectionUnscaledT(K, r, t) ==
    LET r_mat == RodriguesMat(r)
        KR    == MatMul(K, r_mat)
    IN  [a \in 1..3 |-> KR[a] \o <<t[a]>>]

\* P = [K|0] . [[R_mat, T], [0, 0, 0, 1]] for a camera matrix, a Rodrigues vector
\* and a translation
ProjectionMatrix(K, r, t) ==
    LET Kh    == [a \in 1..3 |-> K[a] \o <<0>>]
        r_mat == RodriguesMat(r)
        H     == [a \in 1..4 |-> IF a <= 3 THEN r_mat[a] \o <<t[a]>> ELSE <<0, 0, 0, 1>>]
    IN  MatMul(Kh, H)

\* (P[0].Q / P[2].Q, P[1].Q / P[2].Q) for a homogeneous point Q
Project(P, Q) == <<FDiv(Dot(P[1], Q), Dot(P[3], Q)), FDiv(Dot(P[2], Q), Dot(P[3], Q))>>

\* the pixel offsets of the corners detected on the extrinsics image of camera id
\* from their exact projection: none for camera 1, (1, 0) on id - 1 corners else
DetectionNoise(id) ==
    [n \in 1..Len(BoardPoints) |-> IF n <= id - 1 THEN <<1, 0>> ELSE <<0, 0>>]

\* findCorners on the extrinsics image of camera id: the corners seen by that
\* camera (its own matrix and pose), with the detection noise
findCorners(id) ==
    LET P == ProjectionMatrix(calibrateCamera(id).mtx, solvePnP(id).r, solvePnP(id).t)
    IN  [n \in 1..Len(BoardPoints) |->
            LET p == Project(P, BoardPoints[n] \o <<1>>)
            IN  <<FAdd(p[1], FInt(DetectionNoise(id)[n][1])),
                  FAdd(p[2], FInt(DetectionNoise(id)[n][2]))>>]

\* euclidean_distance(q1, q2) squared
SqDistance(q1, q2) ==
    LET dx == FSub(q1[1], q2[1])
        dy == FSub(q1[2], q2[2])
    IN  FAdd(FMul(dx, dx), FMul(dy, dy))

\* the squares of imgp_to_objreproj_dist: object points projected through the
\* solved pose with the matrix mtx, against the image points
ReprojDistances(mtx, pose, objp, imgp) ==
    LET P_cam == ProjectionMatrix(mtx, pose.r, pose.t)
    IN  [n \in 1..Len(objp) |-> SqDistance(Project(P_cam, objp[n] \o <<1>>), imgp[n])]

\* rms_px = np.sqrt(np.sum([d**2 for d in imgp_to_objreproj_dist])), as rms_px^2
RmsPx(sqdists) == FSum(sqdists)

\* a cache path that also keeps the rotation and translation of the file
CachedListsWithPose(cams) ==
    Lists([c \in 1..Len(cams) |-> FInt(0)],
          [c \in 1..Len(cams) |-> cams[c].name],
          [c \in 1..Len(cams) |-> cams[c].size],
          [c \in 1..Len(cams) |-> cams[c].distortions],
          [c \in 1..Len(cams) |-> cams[c].matrix],
          [c \in 1..Len(cams) |-> Vec(cams[c].rotation)],
          [c \in 1..Len(cams) |-> cams[c].translation])

\* the lists of the cache path of calib_board_fun: name, size, matrix and
\* distortions of every camera table of the file, zero error, rotation and
\* translation
CachedLists(cams) ==
    Lists([c \in 1..Len(cams) |-> FInt(0)],
          [c \in 1..Len(cams) |-> cams[c].name],
          [c \in 1..Len(cams) |-> cams[c].size],
          [c \in 1..Len(cams) |-> cams[c].distortions],
          [c \in 1..Len(cams) |-> cams[c].matrix],
          [c \in 1..Len(cams) |-> Vec(<<0, 0, 0>>)],
          [c \in 1..Len(cams) |-> <<0, 0, 0>>])

\* computeP: one projection matrix per camera table of the calibration file
computeP(f) ==
    LET calib == TomlLoad(f).cams
    IN  [c \in 1..Len(calib) |->
            ProjectionMatrix(calib[c].matrix, calib[c].rotation, calib[c].translation)]

(***************************************************************************)
(* State of a calibration project: its configuration and directories, the  *)
(* calibration file on disk, and the position and locals of the running    *)
(* calibrate_cams_all                                                      *)
(***************************************************************************)
VARIABLES
    cfg,        \* calibration_type and method, binning_factor, overwrite_intrinsics,
                \* calculate_extrinsics
    intrDirs,   \* listing of calib_dir/intrinsics
    extrDirs,   \* listing of calib_dir/extrinsics
    xml,        \* the vendor file to convert
    disk,       \* the Calib*.toml file of calib_dir
    pc,         \* position of the run
    err,        \* the error that stopped the run
    i,          \* camera index of the running loop, from 1
    ret, C, S, D, K, R, T,   \* the lists being built and returned
    sqdists,    \* per camera of calibrate_extrinsics, its imgp_to_objreproj_dist squared
    intrinsicsCalls,  \* calls of calibrate_intrinsics in this run
    cached,     \* whether this run took the cache path
    written,    \* the lists given to the last toml_write
    writes,     \* the number of calls of toml_write of this run
    P_all       \* projection matrices computed from the file

(***************************************************************************)
(* State of a run of reproj_from_trc_calib_func: its input files and the   *)
(* tables being filled                                                     *)
(***************************************************************************)
VARIABLES
    calib_file, \* the calibration file given to the run
    calibLists, \* the lists that file was written from
    trc,        \* the trajectory file: per frame, the (x, y, z) of every marker
    rpc,        \* position of the run
    row,        \* the row of the loop over frames, from 1
    marker_names, \* the marker names of the header of the trajectory file
    data_proj,  \* per camera, the table of reprojected (x, y) per frame
    fmt,        \* openpose_or_deeplabcut_format
    cam_dirs,   \* the number of camera folders created
    h5_files,   \* per camera, the table saved as .h5
    csv_files,  \* per camera, the table saved as .csv
    json_files, \* the .json records written, in order: camera, frame, keypoints
    json_cam,   \* the camera of the loop writing the records, from 1
    json_frame  \* the frame of the loop writing the records, from 1

\* what the run has put on disk and the position of its writing loop
outVars == <<cam_dirs, h5_files, csv_files, json_files, json_cam, json_frame>>

reprojVars == <<calib_file, calibLists, trc, marker_names, rpc, row, data_proj, fmt, outVars>>

(***************************************************************************)
(* State of repeated applications of yup2zup to a table                    *)
(***************************************************************************)
VARIABLES
    Q0,         \* the table given first
    Qcur,       \* the table after the applications made
    yups        \* the number of applications made

yupVars == <<Q0, Qcur, yups>>

(***************************************************************************)
(* State of one reading of a calibration file by one of its consumers      *)
(***************************************************************************)
VARIABLES
    doc,        \* the top-level tables of the file, in file order
    docLists,   \* the lists the file was written from
    consumer,   \* the consumer that reads it
    dpc,        \* where the reading is
    outcome     \* what the consumer gave: the error raised, the number of cameras

docVars == <<doc, docLists, consumer, dpc, outcome>>

(***************************************************************************)
(* State of the labeling of the extrinsics images: the inputs of the       *)
(* camera at hand, the module globals of imgp_objp_visualizer_clicker,     *)
(* what it returned and what calibrate_extrinsics did with it              *)
(***************************************************************************)
VARIABLES
    mode,           \* extrinsics_board_type
    show,           \* show_reprojection_error
    detected,       \* whether findChessboardCorners finds the corners of this camera
    session,        \* the rank of the camera at hand
    lpc,            \* where the labeling of this camera is
    imgp_in,        \* the imgp given to the clicker
    objp_in,        \* the objp given to the clicker
    imgp_confirmed, \* global
    objp_confirmed, \* global
    scat,           \* global: the scatter of the clicked points
    ax_3d,          \* global: the 3D plot of the object points
    events,         \* global: the events kept, of which the last one matters
    count,          \* global: the rank of the object point at hand
    returned,       \* what the clicker (or findCorners) returned
    solve           \* the call of cv2.solvePnP made for this camera, if any

globals == <<imgp_confirmed, objp_confirmed, scat, ax_3d, events, count>>

uiVars == <<mode, show, detected, session, lpc, imgp_in, objp_in, globals, returned, solve>>

(***************************************************************************)
(* State of the image loop of calibrate_intrinsics for one camera: the      *)
(* images at hand, the two lists it accumulates and the fit made from them *)
(***************************************************************************)
VARIABLES
    show_detection_intrinsics,  \* whether each image is shown for confirmation
    nb_files,       \* len(img_vid_files)
    img_nb,         \* the rank of the image the loop is at
    corners,        \* what findCorners returned for the images gone through
    imgpoints,      \* the images whose image points were appended, in order
    objpoints,      \* the images an object-point set was appended for, in order
    warned,         \* whether the fewer-than-10-images message was logged
    camfit,         \* the call of cv2.calibrateCamera made, if any
    fpc             \* where the loop is

fitVars == <<show_detection_intrinsics, nb_files, img_nb, corners, imgpoints, objpoints,
             warned, camfit, fpc>>

(***************************************************************************)
(* State of extract_frames on one video: the video, the arguments of the   *)
(* call at hand, the frame files on disk and what the call has written     *)
(***************************************************************************)
VARIABLES
    video,                  \* its readable frames, its rounded fps, whether it opens
    extract_every_N_sec,    \* argument, a fraction
    overwrite_extraction,   \* argument of the call at hand
    png,                    \* the frame numbers n with a file video_n.png on disk
    png_before,             \* png when the call at hand began
    wrote,                  \* the frame numbers the call at hand has written
    calls,                  \* the number of calls made
    frame_nb,               \* local of the call at hand
    xpc                     \* where the call at hand is

exVars == <<video, extract_every_N_sec, overwrite_extraction, png, png_before, wrote,
            calls, frame_nb, xpc>>

lists == <<ret, C, S, D, K, R, T>>

runVars == <<cfg, intrDirs, extrDirs, xml, disk, pc, err, i, ret, C, S, D, K, R, T,
             sqdists, intrinsicsCalls, cached, written, writes>>

calVars == <<runVars, P_all>>

\* what a calibration run, a reprojection run and yup2zup leave alone
besidesCalib == <<reprojVars, yupVars, docVars, uiVars, fitVars, exVars>>

besidesReproj == <<runVars, yupVars, docVars, uiVars, fitVars, exVars>>

besidesYup == <<calVars, reprojVars, docVars, uiVars, fitVars, exVars>>

besidesDoc == <<calVars, reprojVars, yupVars, uiVars, fitVars, exVars>>

besidesUi == <<calVars, reprojVars, yupVars, docVars, fitVars, exVars>>

besidesFit == <<calVars, reprojVars, yupVars, docVars, uiVars, exVars>>

besidesEx == <<calVars, reprojVars, yupVars, docVars, uiVars, fitVars>>

EmptyLists == Lists(<<>>, <<>>, <<>>, <<>>, <<>>, <<>>, <<>>)

BoardConfigs ==
    [calib_full_type : {"calculate_board"}, binning_factor : {1},
     overwrite_intrinsics : BOOLEAN, calculate_extrinsics : BOOLEAN]

ConvertConfigs ==
    [calib_full_type : {"convert_qualisys"}, binning_factor : {1, 2},
     overwrite_intrinsics : {FALSE}, calculate_extrinsics : {FALSE}]
        \cup [calib_full_type : {"convert_vicon"}, binning_factor : {1},
              overwrite_intrinsics : {FALSE}, calculate_extrinsics : {FALSE}]

\* the selectors of Config.toml no calibration function is run for, named as
\* calibration_type and convert_from or calculate_method joined
UnsupportedConfigs ==
    [calib_full_type : {"convert_optitrack", "convert_other", "calculate_points",
                        "calculate_other", "other"},
     binning_factor : {1}, overwrite_intrinsics : {FALSE}, calculate_extrinsics : {FALSE}]

IsBoard == cfg.calib_full_type = "calculate_board"

IsConvert == cfg.calib_full_type \in {"convert_qualisys", "convert_vicon"}

NoDir == [present |-> FALSE, cams |-> <<>>]

\* no error has stopped the run
NoError == [kind |-> "", dir |-> "", cam |-> 0]

InitCalib ==
    /\ cfg \in BoardConfigs \cup ConvertConfigs \cup UnsupportedConfigs
    /\ IF IsBoard
       THEN intrDirs \in DirListings /\ extrDirs \in DirListings /\ xml = <<>>
       ELSE /\ intrDirs = NoDir /\ extrDirs = NoDir
            /\ IF IsConvert THEN xml \in VendorFiles ELSE xml = <<>>
    /\ disk = [exists |-> FALSE, file |-> NoFile]
    /\ pc = "start"
    /\ err = NoError
    /\ i = 0
    /\ ret = <<>> /\ C = <<>> /\ S = <<>> /\ D = <<>> /\ K = <<>> /\ R = <<>> /\ T = <<>>
    /\ sqdists = <<>>
    /\ intrinsicsCalls = 0
    /\ cached = FALSE
    /\ written = EmptyLists
    /\ writes = 0
    /\ P_all = <<>>

\* the assignment ret, C, S, D, K, R, T = l
SetLists(l) ==
    /\ ret' = l.ret /\ C' = l.C /\ S' = l.S /\ D' = l.D /\ K' = l.K /\ R' = l.R /\ T' = l.T

\* an exception leaves the run; its message names no path
Raise(e) == pc' = "failed" /\ err' = [kind |-> e, dir |-> "", cam |-> 0]

\* a message that is logged without leaving the run
RaiseAtLogsOnly(e, dir, cam) == pc' = pc /\ err' = [kind |-> e, dir |-> dir, cam |-> cam]

\* an exception whose message names the folder dir of calib_dir, or the folder
\* of camera cam under it
RaiseAt(e, dir, cam) == pc' = "failed" /\ err' = [kind |-> e, dir |-> dir, cam |-> cam]

\* an unsupported selector that only logs: the run goes on with no camera
UnsupportedSelectorGoesOn ==
    /\ pc = "start" /\ cfg \in UnsupportedConfigs
    /\ pc' = "returned"
    /\ UNCHANGED besidesCalib
    /\ UNCHANGED <<cfg, intrDirs, extrDirs, xml, disk, err, i, lists, sqdists,
                   intrinsicsCalls, cached, written, writes, P_all>>

\* calibrate_cams_all with a selector it does not support: a convert_from other
\* than qualisys and vicon leaves convert_ext unassigned, a calculate_method
\* other than board or another calibration_type leave calib_full_type
\* unassigned, and the first use of the unassigned name raises
UnsupportedSelector ==
    /\ pc = "start" /\ cfg \in UnsupportedConfigs
    /\ Raise("UnboundLocalError")
    /\ UNCHANGED besidesCalib
    /\ UNCHANGED <<cfg, intrDirs, extrDirs, xml, disk, i, lists, sqdists,
                   intrinsicsCalls, cached, written, writes, P_all>>

(***************************************************************************)
(* calibrate_cams_all, convert: the vendor conversions                     *)
(***************************************************************************)
ConvertQualisys ==
    /\ pc = "start" /\ cfg.calib_full_type = "convert_qualisys"
    /\ SetLists(calib_qca_fun(xml, cfg.binning_factor))
    /\ pc' = "returned"
    /\ UNCHANGED besidesCalib
    /\ UNCHANGED <<cfg, intrDirs, extrDirs, xml, disk, err, i, sqdists,
                   intrinsicsCalls, cached, written, writes, P_all>>

ConvertVicon ==
    /\ pc = "start" /\ cfg.calib_full_type = "convert_vicon"
    /\ SetLists(calib_vicon_fun(xml))
    /\ pc' = "returned"
    /\ UNCHANGED besidesCalib
    /\ UNCHANGED <<cfg, intrDirs, extrDirs, xml, disk, err, i, sqdists,
                   intrinsicsCalls, cached, written, writes, P_all>>

(***************************************************************************)
(* calib_board_fun                                                         *)
(***************************************************************************)
\* a calib_board_fun that never takes the cache path
AlwaysRecompute == FALSE

\* not overwrite_intrinsics and 'calib_file' in locals()
UseCache == ~cfg.overwrite_intrinsics /\ disk.exists

\* the cache path: intrinsics retrieved from the calibration file
RetrieveIntrinsics ==
    /\ pc = "start" /\ IsBoard /\ UseCache
    /\ LET calib_data == TomlLoad(disk.file)
       IN  IF calib_data.ok
           THEN /\ SetLists(CachedLists(calib_data.cams))
                /\ pc' = "intrinsics_ready"
                /\ cached' = TRUE
                /\ err' = err
           ELSE /\ Raise("toml")
                /\ UNCHANGED <<lists, cached>>
    /\ UNCHANGED besidesCalib
    /\ UNCHANGED <<cfg, intrDirs, extrDirs, xml, disk, i, sqdists, intrinsicsCalls,
                   written, writes, P_all>>

\* calibrate_intrinsics, up to its loop: fatal without an intrinsics folder
CalibrateIntrinsicsBegin ==
    /\ pc = "start" /\ IsBoard /\ ~UseCache
    /\ intrinsicsCalls' = intrinsicsCalls + 1
    /\ IF intrDirs.present
       THEN /\ SetLists(EmptyLists)
            /\ i' = 1
            /\ pc' = "intrinsics"
            /\ err' = err
       ELSE /\ RaiseAt("no_intrinsics_folder", "intrinsics", 0)
            /\ UNCHANGED <<lists, i>>
    /\ UNCHANGED besidesCalib
    /\ UNCHANGED <<cfg, intrDirs, extrDirs, xml, disk, sqdists, cached, written, writes, P_all>>

\* one camera of the loop of calibrate_intrinsics: fatal without image files,
\* else the camera is fitted and one entry is appended to every list
IntrinsicsCam ==
    /\ pc = "intrinsics" /\ i <= Len(intrDirs.cams)
    /\ \E hasFiles \in BOOLEAN :
        IF hasFiles
        THEN LET id  == intrDirs.cams[i]
                 fit == calibrateCamera(id)
                 h   == ImageShape(id)[1]
                 w   == ImageShape(id)[2]
             IN  /\ ret' = Append(ret, fit.ret)
                 /\ C' = Append(C, CamName(FormatInt02(i)))
                 /\ S' = Append(S, <<w, h>>)
                 /\ D' = Append(D, fit.dist)
                 /\ K' = Append(K, fit.mtx)
                 /\ R' = Append(R, Vec(<<0, 0, 0>>))
                 /\ T' = Append(T, <<0, 0, 0>>)
                 /\ i' = i + 1
                 /\ UNCHANGED <<pc, err>>
        ELSE /\ RaiseAt("no_files", "intrinsics", intrDirs.cams[i])
             /\ UNCHANGED <<lists, i>>
    /\ UNCHANGED besidesCalib
    /\ UNCHANGED <<cfg, intrDirs, extrDirs, xml, disk, sqdists, intrinsicsCalls,
                   cached, written, writes, P_all>>

\* calibrate_intrinsics returns its lists
IntrinsicsReturn ==
    /\ pc = "intrinsics" /\ i > Len(intrDirs.cams)
    /\ pc' = "intrinsics_ready"
    /\ UNCHANGED besidesCalib
    /\ UNCHANGED <<cfg, intrDirs, extrDirs, xml, disk, err, i, lists, sqdists,
                   intrinsicsCalls, cached, written, writes, P_all>>

\* calculate_extrinsics is false: calib_board_fun returns the lists as they are
SkipExtrinsics ==
    /\ pc = "intrinsics_ready" /\ ~cfg.calculate_extrinsics
    /\ pc' = "returned"
    /\ UNCHANGED besidesCalib
    /\ UNCHANGED <<cfg, intrDirs, extrDirs, xml, disk, err, i, lists, sqdists,
                   intrinsicsCalls, cached, written, writes, P_all>>

\* an extrinsics stage entered before any intrinsics, whatever the flag
ExtrinsicsBeforeIntrinsics ==
    /\ pc = "start" /\ IsBoard
    /\ extrDirs.present
    /\ ret' = <<>> /\ R' = <<>> /\ T' = <<>>
    /\ sqdists' = <<>>
    /\ i' = 1
    /\ pc' = "extrinsics"
    /\ err' = err
    /\ UNCHANGED besidesCalib
    /\ UNCHANGED <<cfg, intrDirs, extrDirs, xml, disk, C, S, D, K, intrinsicsCalls,
                   cached, written, writes, P_all>>

\* calibrate_extrinsics(calib_dir, config, C, S, K, D), up to its loop: fatal
\* without an extrinsics folder; ret, R, T start empty
CalibrateExtrinsicsBegin ==
    /\ pc = "intrinsics_ready" /\ cfg.calculate_extrinsics
    /\ IF extrDirs.present
       THEN /\ ret' = <<>> /\ R' = <<>> /\ T' = <<>>
            /\ sqdists' = <<>>
            /\ i' = 1
            /\ pc' = "extrinsics"
            /\ err' = err
       ELSE /\ RaiseAt("no_extrinsics_folder", "extrinsics", 0)
            /\ UNCHANGED <<ret, R, T, sqdists, i>>
    /\ UNCHANGED besidesCalib
    /\ UNCHANGED <<cfg, intrDirs, extrDirs, xml, disk, C, S, D, K, intrinsicsCalls,
                   cached, written, writes, P_all>>

\* one camera of the loop of calibrate_extrinsics: fatal without image files or
\* without corners, an IndexError past the last K[i]; else the pose is solved
\* with K[i], D[i] and its error, rotation and translation are appended
ExtrinsicsCam ==
    /\ pc = "extrinsics" /\ i <= Len(extrDirs.cams)
    /\ \E hasFiles \in BOOLEAN, found \in BOOLEAN :
        IF ~hasFiles
        THEN RaiseAt("no_files", "extrinsics", extrDirs.cams[i])
             /\ UNCHANGED <<ret, R, T, sqdists, i>>
        ELSE IF ~found
        THEN Raise("no_corners") /\ UNCHANGED <<ret, R, T, sqdists, i>>
        ELSE IF i > Len(K) \/ i > Len(D)
        THEN Raise("IndexError") /\ UNCHANGED <<ret, R, T, sqdists, i>>
        ELSE LET id   == extrDirs.cams[i]
                 imgp == findCorners(id)
                 pose == solvePnP(id)
                 d    == ReprojDistances(K[i], pose, BoardPoints, imgp)
             IN  /\ ret' = Append(ret, RmsPx(d))
                 /\ R' = Append(R, Vec(pose.r))
                 /\ T' = Append(T, pose.t)
                 /\ sqdists' = Append(sqdists, d)
                 /\ i' = i + 1
                 /\ UNCHANGED <<pc, err>>
    /\ UNCHANGED besidesCalib
    /\ UNCHANGED <<cfg, intrDirs, extrDirs, xml, disk, C, S, D, K, intrinsicsCalls,
                   cached, written, writes, P_all>>

\* calibrate_extrinsics returns ret, C, S, D, K, R, T and so does calib_board_fun
ExtrinsicsReturn ==
    /\ pc = "extrinsics" /\ i > Len(extrDirs.cams)
    /\ pc' = "returned"
    /\ UNCHANGED besidesCalib
    /\ UNCHANGED <<cfg, intrDirs, extrDirs, xml, disk, err, i, lists, sqdists,
                   intrinsicsCalls, cached, written, writes, P_all>>

(***************************************************************************)
(* calibrate_cams_all, after the calibration function has returned         *)
(***************************************************************************)
\* toml_write(calib_output_path, C, S, D, K, R, T)
WriteCalibration ==
    /\ pc = "returned"
    /\ LET w == TomlWrite(C, S, D, K, R, T)
       IN  /\ disk' = [exists |-> TRUE, file |-> w.file]
           /\ IF w.raised THEN Raise("IndexError") ELSE pc' = "written" /\ err' = err
    /\ written' = Lists(ret, C, S, D, K, R, T)
    /\ writes' = writes + 1
    /\ UNCHANGED besidesCalib
    /\ UNCHANGED <<cfg, intrDirs, extrDirs, xml, i, lists, sqdists, intrinsicsCalls,
                   cached, P_all>>

\* a recap that writes the calibration file a second time
RecapCalibrateRewrites ==
    /\ pc = "written"
    /\ disk' = [exists |-> TRUE, file |-> TomlWrite(C, S, D, K, R, T).file]
    /\ writes' = writes + 1
    /\ pc' = "done"
    /\ UNCHANGED besidesCalib
    /\ UNCHANGED <<cfg, intrDirs, extrDirs, xml, err, i, lists, sqdists,
                   intrinsicsCalls, cached, written, P_all>>

\* recap_calibrate(ret, calib_path, calib_full_type): reads the file back and
\* logs ret[c] for every camera table
RecapCalibrate ==
    /\ pc = "written"
    /\ LET calib == TomlLoad(disk.file)
       IN  IF ~calib.ok THEN Raise("toml")
           ELSE IF Len(ret) < Len(calib.cams) THEN Raise("IndexError")
           ELSE pc' = "done" /\ err' = err
    /\ UNCHANGED besidesCalib
    /\ UNCHANGED <<cfg, intrDirs, extrDirs, xml, disk, i, lists, sqdists,
                   intrinsicsCalls, cached, written, writes, P_all>>

\* the projection engine loads the calibration file the run has stored
LoadProjections ==
    /\ pc = "done"
    /\ TomlLoad(disk.file).ok
    /\ P_all' = computeP(disk.file)
    /\ pc' = "loaded"
    /\ UNCHANGED besidesCalib
    /\ UNCHANGED <<cfg, intrDirs, extrDirs, xml, disk, err, i, lists, sqdists,
                   intrinsicsCalls, cached, written, writes>>

\* the board calibration is run again on the same project, with the flags of
\* Config.toml set anew
RunAgain ==
    /\ pc \in {"done", "loaded", "failed"} /\ IsBoard
    /\ \E c \in BoardConfigs : cfg' = c
    /\ pc' = "start"
    /\ err' = NoError
    /\ i' = 0
    /\ SetLists(EmptyLists)
    /\ sqdists' = <<>>
    /\ intrinsicsCalls' = 0
    /\ cached' = FALSE
    /\ P_all' = <<>>
    /\ UNCHANGED besidesCalib
    /\ writes' = 0
    /\ UNCHANGED <<intrDirs, extrDirs, xml, disk, written>>

NextCalib ==
    \/ UnsupportedSelector
    \/ ConvertQualisys \/ ConvertVicon
    \/ RetrieveIntrinsics \/ CalibrateIntrinsicsBegin \/ IntrinsicsCam \/ IntrinsicsReturn
    \/ SkipExtrinsics \/ CalibrateExtrinsicsBegin \/ ExtrinsicsCam \/ ExtrinsicsReturn
    \/ WriteCalibration \/ RecapCalibrate \/ LoadProjections \/ RunAgain

vars == <<calVars, reprojVars, yupVars, docVars, uiVars, fitVars, exVars>>

\* nothing on disk yet
NoOutput ==
    /\ cam_dirs = 0 /\ h5_files = <<>> /\ csv_files = <<>> /\ json_files = <<>>
    /\ json_cam = 0 /\ json_frame = 0

\* no reprojection is running
ReprojIdle ==
    /\ calib_file = NoFile
    /\ calibLists = EmptyLists
    /\ trc = <<>>
    /\ marker_names = <<>>
    /\ rpc = "idle"
    /\ row = 0
    /\ data_proj = <<>>
    /\ fmt = "deeplabcut"
    /\ NoOutput

\* no table is being reordered
YupIdle == Q0 = <<>> /\ Qcur = <<>> /\ yups = 0

\* no outcome yet
NoOutcome == [raised |-> "", cameras |-> 0]

\* no file is being read
DocIdle ==
    /\ doc = <<>> /\ docLists = EmptyLists /\ consumer = "" /\ dpc = "idle"
    /\ outcome = NoOutcome

\* a name that is not bound, a list of the points s, an array of the points s
Unbound == [def |-> FALSE, len |-> 0, arr |-> FALSE, pts |-> <<>>]

ListPts(s) == [def |-> TRUE, len |-> Len(s), arr |-> FALSE, pts |-> s]

ArrayPts(s) == [def |-> TRUE, len |-> Len(s), arr |-> TRUE, pts |-> s]

\* a list and an array of n points given to the labeling, told apart by rank
ListOf(n) == ListPts([k \in 1..n |-> k])

ArrayOf(n) == ArrayPts([k \in 1..n |-> k])

\* nothing returned yet, no call of solvePnP made
NoReturn == [kind |-> "", imgp |-> Unbound, objp |-> Unbound]

NoSolve == [called |-> FALSE, imgp |-> "", npoints |-> 0, nobjects |-> 0, raised |-> ""]

\* none of the globals is bound
NoGlobals ==
    /\ imgp_confirmed = Unbound /\ objp_confirmed = Unbound
    /\ scat = Unbound /\ ax_3d = FALSE
    /\ events = [def |-> FALSE, last |-> ""]
    /\ count = [def |-> FALSE, val |-> 0]

\* no image is being labeled
UiIdle ==
    /\ mode = "" /\ show = FALSE /\ detected = FALSE /\ session = 0 /\ lpc = "idle"
    /\ imgp_in = Unbound /\ objp_in = Unbound
    /\ NoGlobals
    /\ returned = NoReturn /\ solve = NoSolve

\* no call of cv2.calibrateCamera made
NoFit == [called |-> FALSE, nimg |-> 0, nobj |-> 0, raised |-> ""]

\* no image loop is running
FitIdle ==
    /\ show_detection_intrinsics = FALSE /\ nb_files = 0 /\ img_nb = 0 /\ corners = <<>>
    /\ imgpoints = <<>> /\ objpoints = <<>> /\ warned = FALSE
    /\ camfit = NoFit /\ fpc = "idle"

\* no video is at hand
NoVideo == [frames |-> 0, fps |-> 0, opened |-> FALSE]

\* no frame extraction is running
ExIdle ==
    /\ video = NoVideo /\ extract_every_N_sec = FInt(1) /\ overwrite_extraction = FALSE
    /\ png = {} /\ png_before = {} /\ wrote = {} /\ calls = 0 /\ frame_nb = 0
    /\ xpc = "idle"

Init == InitCalib /\ ReprojIdle /\ YupIdle /\ DocIdle /\ UiIdle /\ FitIdle /\ ExIdle

Next == NextCalib

Spec == Init /\ [][Next]_vars

(***************************************************************************)
(* reproj_from_trc_calib_func                                              *)
(***************************************************************************)
\* the markers of the trajectory files: two names of the BODY_25B skeleton
\* unless the run is given other ones
DefaultMarkers == <<"Nose", "RHip">>

Markers == marker_names

\* marker positions (x, y, z) of a trajectory file, Y-up: after yup2zup the
\* first is the optical centre of camera 1, the second lies on its optical axis,
\* the third in its focal plane off the centre, the fourth nowhere special
TrcPoints == <<<<0, -5, 0>>, <<0, 3, 0>>, <<0, -5, 1>>, <<1, 2, 3>>>>

\* the frames a trajectory file is made of: one point per marker
TrcFrames ==
    {<<TrcPoints[1], TrcPoints[2]>>, <<TrcPoints[3], TrcPoints[4]>>,
     <<TrcPoints[2], TrcPoints[4]>>, <<TrcPoints[4], TrcPoints[1]>>}

TrcFiles == UNION {[1..n -> TrcFrames] : n \in 1..MaxFrames}

\* the parameters of camera id of a calibration file: camera 1 has no rotation
\* and translation (0, 0, 5)
ReprojCamera(id) ==
    [K |-> calibrateCamera(id).mtx,
     D |-> calibrateCamera(id).dist,
     S |-> <<ImageShape(id)[2], ImageShape(id)[1]>>,
     r |-> IF id = 1 THEN <<0, 0, 0>> ELSE solvePnP(id + 1).r,
     t |-> IF id = 1 THEN <<0, 0, 5>> ELSE solvePnP(id + 1).t]

\* the lists of the cameras ids, as a calibration function returns them
CameraLists(ids) ==
    Lists([c \in 1..Len(ids) |-> FInt(0)],
          [c \in 1..Len(ids) |-> CamName(FormatInt02(ids[c]))],
          [c \in 1..Len(ids) |-> ReprojCamera(ids[c]).S],
          [c \in 1..Len(ids) |-> ReprojCamera(ids[c]).D],
          [c \in 1..Len(ids) |-> ReprojCamera(ids[c]).K],
          [c \in 1..Len(ids) |-> Vec(ReprojCamera(ids[c]).r)],
          [c \in 1..Len(ids) |-> ReprojCamera(ids[c]).t])

\* df_from_trc, the marker columns (data.iloc[:, 2:]): labels and one row per frame
df_from_trc(f) ==
    [columns |-> [j \in 1..(3 * Len(Markers)) |->
                    <<Markers[((j - 1) \div 3) + 1], <<"X", "Y", "Z">>[((j - 1) % 3) + 1]>>],
     values  |-> [r \in 1..Len(f) |->
                    [j \in 1..(3 * Len(Markers)) |-> f[r][((j - 1) \div 3) + 1][((j - 1) % 3) + 1]]]]

\* a reordering of every triplet from (x, y, z) to (y, z, x)
yup2zupOtherTurn(Q) ==
    LET cols == Q.columns
        n    == Len(cols) \div 3
        new  == [j \in 1..(3 * n) |->
                    LET t == (j - 1) \div 3
                        k == (j - 1) % 3
                    IN  cols[3 * t + <<2, 3, 1>>[k + 1]]]
    IN  [columns |-> new,
         values  |-> [r \in 1..Len(Q.values) |->
                        [j \in 1..(3 * n) |-> Q.values[r][IndexOf(cols, new[j])]]]]

\* yup2zup: the columns of every triplet reordered from (x, y, z) to (z, x, y)
yup2zup(Q) ==
    LET cols == Q.columns
        n    == Len(cols) \div 3
        new  == [j \in 1..(3 * n) |->
                    LET t == (j - 1) \div 3
                        k == (j - 1) % 3
                    IN  cols[3 * t + <<3, 1, 2>>[k + 1]]]
    IN  [columns |-> new,
         values  |-> [r \in 1..Len(Q.values) |->
                        [j \in 1..(3 * n) |-> Q.values[r][IndexOf(cols, new[j])]]]]

\* a reprojection that gives 0 where the denominator is 0
reprojectionGuarded(P, Q) ==
    [x_calc |-> [c \in 1..Len(P) |->
                    IF Dot(P[c][3], Q) = 0 THEN FInt(0)
                    ELSE FDiv(Dot(P[c][1], Q), Dot(P[c][3], Q))],
     y_calc |-> [c \in 1..Len(P) |->
                    IF Dot(P[c][3], Q) = 0 THEN FInt(0)
                    ELSE FDiv(Dot(P[c][2], Q), Dot(P[c][3], Q))]]

\* reprojection(P_all, Q): x and y of the homogeneous point Q on every camera
reprojection(P, Q) ==
    [x_calc |-> [c \in 1..Len(P) |-> FDiv(Dot(P[c][1], Q), Dot(P[c][3], Q))],
     y_calc |-> [c \in 1..Len(P) |-> FDiv(Dot(P[c][2], Q), Dot(P[c][3], Q))]]

\* q = np.append(Q.iloc[row, 3*keypoint:3*keypoint+3], 1), keypoint from 1
HomogeneousPoint(Q, r, keypoint) ==
    SubSeq(Q.values[r], 3 * keypoint - 2, 3 * keypoint) \o <<1>>

\* a row that holds the values of the first camera whatever the camera
RowCoordsFirstCamera(P, Q, r, cam, num_bodyparts) ==
    [j \in 1..(2 * num_bodyparts) |->
        LET xy == reprojection(P, HomogeneousPoint(Q, r, (j + 1) \div 2))
        IN  IF j % 2 = 1 THEN xy.x_calc[1] ELSE xy.y_calc[1]]

\* coords[cam] after the keypoint loop of a row: x, y of every keypoint in turn
RowCoords(P, Q, r, cam, num_bodyparts) ==
    [j \in 1..(2 * num_bodyparts) |->
        LET xy == reprojection(P, HomogeneousPoint(Q, r, (j + 1) \div 2))
        IN  IF j % 2 = 1 THEN xy.x_calc[cam] ELSE xy.y_calc[cam]]

\* no calibration is running
CalibIdle ==
    /\ cfg = [calib_full_type |-> "none", binning_factor |-> 1,
              overwrite_intrinsics |-> FALSE, calculate_extrinsics |-> FALSE]
    /\ intrDirs = NoDir /\ extrDirs = NoDir /\ xml = <<>>
    /\ disk = [exists |-> FALSE, file |-> NoFile]
    /\ pc = "idle" /\ err = NoError /\ i = 0
    /\ ret = <<>> /\ C = <<>> /\ S = <<>> /\ D = <<>> /\ K = <<>> /\ R = <<>> /\ T = <<>>
    /\ sqdists = <<>> /\ intrinsicsCalls = 0 /\ cached = FALSE /\ written = EmptyLists
    /\ writes = 0

\* the values given for openpose_or_deeplabcut_format: the two formats and another
Formats == {"deeplabcut", "openpose", "other"}

\* a reprojection is given a calibration file written by toml_write and a
\* trajectory file
ReprojInputs ==
    /\ \E ids \in DistinctSeqs(CamIds, MaxCams) \ {<<>>} :
          /\ calibLists = CameraLists(ids)
          /\ calib_file = TomlWrite(calibLists.C, calibLists.S, calibLists.D,
                                    calibLists.K, calibLists.R, calibLists.T).file
    /\ trc \in TrcFiles
    /\ rpc = "start"
    /\ row = 0
    /\ data_proj = <<>>
    /\ NoOutput
    /\ P_all = <<>>

\* and an output format
ReprojStart == ReprojInputs /\ marker_names = DefaultMarkers /\ fmt \in Formats

InitReproj == CalibIdle /\ ReprojStart /\ YupIdle /\ DocIdle /\ UiIdle /\ FitIdle /\ ExIdle

\* the trajectory as the loop reads it: Q = data_trc_zup.iloc[:, 2:]
QTable == yup2zup(df_from_trc(trc))

\* num_bodyparts = int(header_trc['NumMarkers'])
NumMarkers == Len(Markers)

\* up to the loop over frames: the projection matrices are computed, the
\* camera folders created, and every camera gets a copy of the NaN table, one
\* row per frame
ReprojBegin ==
    /\ rpc = "start"
    /\ IF TomlLoad(calib_file).ok
       THEN /\ P_all' = computeP(calib_file)
            /\ cam_dirs' = Len(P_all')
            /\ data_proj' = [cam \in 1..Len(P_all') |->
                                [r \in 1..Len(trc) |-> [j \in 1..(2 * NumMarkers) |-> NaN]]]
            /\ row' = 1
            /\ rpc' = "rows"
       ELSE /\ rpc' = "failed"
            /\ UNCHANGED <<P_all, data_proj, row, cam_dirs>>
    /\ UNCHANGED <<calib_file, calibLists, trc, marker_names, fmt, h5_files, csv_files, json_files,
                   json_cam, json_frame>>
    /\ UNCHANGED besidesReproj

\* one row of the loop: every keypoint of the frame is reprojected on every
\* camera and the row is stored in every camera's table
ReprojRow ==
    /\ rpc = "rows" /\ row <= Len(QTable.values)
    /\ data_proj' = [cam \in 1..Len(P_all) |->
                        [data_proj[cam] EXCEPT
                            ![row] = RowCoords(P_all, QTable, row, cam, NumMarkers)]]
    /\ row' = row + 1
    /\ UNCHANGED <<calib_file, calibLists, trc, marker_names, rpc, P_all, fmt, outVars>>
    /\ UNCHANGED besidesReproj

\* the loop over frames ends: the tables are ready to be saved
ReprojRowsEnd ==
    /\ rpc = "rows" /\ row > Len(QTable.values)
    /\ rpc' = "save"
    /\ UNCHANGED <<calib_file, calibLists, trc, marker_names, row, data_proj, P_all, fmt, outVars>>
    /\ UNCHANGED besidesReproj

\* nb_joints of the BODY_25B skeleton
nb_joints == 25

\* the id None of the root of the tree, which is no number
NoneId == -1

\* the nodes of the BODY_25B tree, with their ids
BODY_25B ==
    {<<"CHip", NoneId>>, <<"RHip", 12>>, <<"RKnee", 14>>, <<"RAnkle", 16>>, <<"RBigToe", 22>>,
     <<"RSmallToe", 23>>, <<"RHeel", 24>>, <<"LHip", 11>>, <<"LKnee", 13>>,
     <<"LAnkle", 15>>, <<"LBigToe", 19>>, <<"LSmallToe", 20>>, <<"LHeel", 21>>,
     <<"Neck", 17>>, <<"Head", 18>>, <<"Nose", 0>>, <<"RShoulder", 6>>,
     <<"RElbow", 8>>, <<"RWrist", 10>>, <<"LShoulder", 5>>, <<"LElbow", 7>>,
     <<"LWrist", 9>>}

\* bodyparts = [d[:-2] for d in data_trc_zup.columns[2::3]]
bodyparts == [k \in 1..(Len(QTable.columns) \div 3) |-> QTable.columns[3 * k - 2][1]]

\* bodyparts_ids: the id of the node of every bodypart
bodyparts_ids ==
    [k \in 1..Len(bodyparts) |-> (CHOOSE n \in BODY_25B : n[1] = bodyparts[k])[2]]

\* pose_keypoints_2d of a record: zeros, but (x, y, 1) at the three places of
\* the id of every bodypart, x and y read from row r of the table of camera cam
pose_keypoints_2d(cam, r) ==
    LET ids    == bodyparts_ids
        values == data_proj[cam][r]
    IN  [j \in 1..(nb_joints * 3) |->
            LET at == {k \in DOMAIN ids : ids[k] = (j - 1) \div 3}
            IN  IF at = {} THEN FInt(0)
                ELSE LET k == CHOOSE k \in at : \A l \in at : l <= k
                     IN  CASE (j - 1) % 3 = 0 -> values[2 * k - 1]
                           [] (j - 1) % 3 = 1 -> values[2 * k]
                           [] OTHER -> FInt(1)]

\* the value of row when the records are written: that of the last iteration
\* of the loop over frames
StaleRow == row - 1

\* the DeepLabCut format: every camera's table is saved as .h5 and as .csv
SaveDeepLabCut ==
    /\ rpc = "save" /\ fmt = "deeplabcut"
    /\ h5_files' = data_proj
    /\ csv_files' = data_proj
    /\ rpc' = "done"
    /\ UNCHANGED <<calib_file, calibLists, trc, marker_names, row, data_proj, P_all, fmt, cam_dirs,
                   json_files, json_cam, json_frame>>
    /\ UNCHANGED besidesReproj

\* the OpenPose format: the ids are read from the tree and the loops over
\* cameras and frames begin
OpenPoseBegin ==
    /\ rpc = "save" /\ fmt = "openpose"
    /\ IF \A k \in 1..Len(bodyparts) : \E n \in BODY_25B : n[1] = bodyparts[k]
       THEN rpc' = "json" /\ json_cam' = 1 /\ json_frame' = 1
       ELSE rpc' = "failed" /\ UNCHANGED <<json_cam, json_frame>>
    /\ UNCHANGED <<calib_file, calibLists, trc, marker_names, row, data_proj, P_all, fmt, cam_dirs,
                   h5_files, csv_files, json_files>>
    /\ UNCHANGED besidesReproj

\* one record of the loops: the file of camera json_cam and frame json_frame is
\* written with the keypoints of data_proj[cam].iloc[row]; i*3 raises TypeError
\* on the id None, before the file is opened
WriteJson ==
    /\ rpc = "json" /\ json_cam <= Len(P_all)
    /\ IF \E k \in DOMAIN bodyparts_ids : bodyparts_ids[k] = NoneId
       THEN /\ rpc' = "failed"
            /\ UNCHANGED <<json_files, json_frame, json_cam>>
       ELSE /\ json_files' = Append(json_files,
                                [cam |-> json_cam, frame |-> json_frame,
                                 pose_keypoints_2d |->
                                     pose_keypoints_2d(json_cam, StaleRow)])
            /\ IF json_frame < Len(QTable.values)
               THEN json_frame' = json_frame + 1 /\ json_cam' = json_cam
               ELSE json_frame' = 1 /\ json_cam' = json_cam + 1
            /\ rpc' = rpc
    /\ UNCHANGED <<calib_file, calibLists, trc, marker_names, row, data_proj, P_all, fmt,
                   cam_dirs, h5_files, csv_files>>
    /\ UNCHANGED besidesReproj

\* the loops over cameras and frames end
OpenPoseEnd ==
    /\ rpc = "json" /\ json_cam > Len(P_all)
    /\ rpc' = "done"
    /\ UNCHANGED <<calib_file, calibLists, trc, marker_names, row, data_proj, P_all, fmt, outVars>>
    /\ UNCHANGED besidesReproj

\* another format: ValueError, once the tables have been computed
WrongFormat ==
    /\ rpc = "save" /\ fmt \notin {"deeplabcut", "openpose"}
    /\ rpc' = "failed"
    /\ UNCHANGED <<calib_file, calibLists, trc, marker_names, row, data_proj, P_all, fmt, outVars>>
    /\ UNCHANGED besidesReproj

NextReproj ==
    \/ ReprojBegin \/ ReprojRow \/ ReprojRowsEnd
    \/ SaveDeepLabCut \/ OpenPoseBegin \/ WriteJson \/ OpenPoseEnd \/ WrongFormat

SpecReproj == InitReproj /\ [][NextReproj]_vars

(***************************************************************************)
(* the OpenPose writer given trajectory files of other marker names        *)
(***************************************************************************)
\* the marker names of the trajectory files given: nodes of the tree that have
\* an id, the root of the tree, a name that is no node
MarkerSets == {DefaultMarkers, <<"LWrist", "Nose">>, <<"CHip", "RHip">>, <<"Nose", "Tail">>}

InitJson ==
    /\ CalibIdle /\ YupIdle /\ DocIdle /\ UiIdle /\ FitIdle /\ ExIdle
    /\ ReprojInputs
    /\ marker_names \in MarkerSets
    /\ fmt = "openpose"

NextJson ==
    \/ ReprojBegin \/ ReprojRow \/ ReprojRowsEnd
    \/ OpenPoseBegin \/ WriteJson \/ OpenPoseEnd

SpecJson == InitJson /\ [][NextJson]_vars

(***************************************************************************)
(* the two entry points given selectors they do not support                *)
(***************************************************************************)
\* a calibration with an unsupported selector and a reprojection with a format
\* that is neither of the two
InitSelectors ==
    /\ InitCalib /\ cfg \in UnsupportedConfigs
    /\ ReprojStart /\ fmt \notin {"deeplabcut", "openpose"}
    /\ YupIdle /\ DocIdle /\ UiIdle /\ FitIdle /\ ExIdle

NextSelectors ==
    UnsupportedSelector \/ ReprojBegin \/ ReprojRow \/ ReprojRowsEnd \/ WrongFormat

SpecSelectors == InitSelectors /\ [][NextSelectors]_vars

(***************************************************************************)
(* yup2zup applied to tables of N triplets                                 *)
(***************************************************************************)
\* largest number of triplets (markers) of a table
MaxTriplets == 2

\* the marker names of the tables: df_from_trc gives every column its own label
TableMarkers == <<"Nose", "RHip", "LHip", "Neck">>

\* the labels of a table of n triplets
TableColumns(n) ==
    [j \in 1..(3 * n) |->
        <<TableMarkers[((j - 1) \div 3) + 1], <<"X", "Y", "Z">>[((j - 1) % 3) + 1]>>]

\* the tables of at most MaxTriplets triplets, without a row or with one row
Tables ==
    UNION {{[columns |-> TableColumns(n), values |-> <<>>]}
              \cup {[columns |-> TableColumns(n), values |-> <<v>>] :
                        v \in [1..(3 * n) -> 0..1]} :
           n \in 0..MaxTriplets}

InitYup ==
    /\ DocIdle /\ UiIdle /\ FitIdle /\ ExIdle
    /\ CalibIdle /\ P_all = <<>>
    /\ ReprojIdle
    /\ Q0 \in Tables
    /\ Qcur = Q0
    /\ yups = 0

\* Q = yup2zup(Q)
ApplyYup2Zup ==
    /\ yups < 3
    /\ Qcur' = yup2zup(Qcur)
    /\ yups' = yups + 1
    /\ UNCHANGED Q0
    /\ UNCHANGED besidesYup

NextYup == ApplyYup2Zup

SpecYup == InitYup /\ [][NextYup]_vars

(***************************************************************************)
(* The consumers of a calibration file that holds one more top-level table *)
(***************************************************************************)
\* the top-level tables of a file written by toml_write, in file order
TopLevel(f) == f.cams \o f.meta

\* s with x put after its first p elements
InsertAt(s, p, x) == SubSeq(s, 1, p) \o <<x>> \o SubSeq(s, p + 1, Len(s))

\* the tables a file can hold besides its cameras and metadata: one with keys
\* of its own, one with the keys of a camera table
UnknownBlocks(f) ==
    {[key |-> <<"notes">>, author |-> "x"],
     [f.cams[1] EXCEPT !.key = <<"notes">>]}

\* the keys the consumers read in a table they take for a camera
CacheKeys == {"name", "size", "matrix", "distortions"}

ProjectionKeys == {"matrix", "rotation", "translation"}

RecapKeys == {"matrix", "translation"}

\* the positions of the tables a consumer takes for cameras: every key but
\* 'metadata'
CameraPositions(calib) == {c \in 1..Len(calib) : calib[c].key # <<"metadata">>}

\* the loop of a consumer over the tables of the file: KeyError at the first
\* table taken for a camera that lacks one of the keys read, IndexError (for
\* recap_calibrate, which reads ret[c], c the position among all the tables)
\* past the end of ret, else one camera per table taken
Consume(calib, keys, retLen) ==
    LET cams   == CameraPositions(calib)
        noKey  == {c \in cams : ~(keys \subseteq DOMAIN calib[c])}
        noRet  == {c \in cams : c > retLen}
        fails  == noKey \cup noRet
        first  == CHOOSE c \in fails : \A d \in fails : c <= d
    IN  IF fails = {} THEN [raised |-> "", cameras |-> Cardinality(cams)]
        ELSE IF first \in noKey THEN [raised |-> "KeyError", cameras |-> 0]
        ELSE [raised |-> "IndexError", cameras |-> 0]

Consumers == {"computeP", "calib_board_fun", "recap_calibrate"}

\* a file of one or more cameras written by toml_write, as it is or with one
\* more table put somewhere among its tables, is given to a consumer
InitDoc ==
    /\ CalibIdle /\ P_all = <<>> /\ ReprojIdle /\ YupIdle /\ UiIdle /\ FitIdle /\ ExIdle
    /\ \E ids \in DistinctSeqs(CamIds, MaxCams) \ {<<>>} :
          /\ docLists = CameraLists(ids)
          /\ LET f == TomlWrite(docLists.C, docLists.S, docLists.D,
                                docLists.K, docLists.R, docLists.T).file
             IN  \/ doc = TopLevel(f)
                 \/ \E p \in 0..Len(TopLevel(f)) : \E b \in UnknownBlocks(f) :
                        doc = InsertAt(TopLevel(f), p, b)
    /\ consumer \in Consumers
    /\ dpc = "start"
    /\ outcome = NoOutcome

\* large enough for ret[c] never to fail
NoRet == 2 * MaxCams + 2

\* computeP(calib_file)
ReadComputeP ==
    /\ dpc = "start" /\ consumer = "computeP"
    /\ outcome' = Consume(doc, ProjectionKeys, NoRet)
    /\ dpc' = IF outcome'.raised = "" THEN "done" ELSE "failed"
    /\ UNCHANGED <<doc, docLists, consumer>>
    /\ UNCHANGED besidesDoc

\* the cache path of calib_board_fun
ReadCache ==
    /\ dpc = "start" /\ consumer = "calib_board_fun"
    /\ outcome' = Consume(doc, CacheKeys, NoRet)
    /\ dpc' = IF outcome'.raised = "" THEN "done" ELSE "failed"
    /\ UNCHANGED <<doc, docLists, consumer>>
    /\ UNCHANGED besidesDoc

\* recap_calibrate(ret, calib_path, 'calculate_board'), ret of the cameras written
ReadRecap ==
    /\ dpc = "start" /\ consumer = "recap_calibrate"
    /\ outcome' = Consume(doc, RecapKeys, Len(docLists.ret))
    /\ dpc' = IF outcome'.raised = "" THEN "done" ELSE "failed"
    /\ UNCHANGED <<doc, docLists, consumer>>
    /\ UNCHANGED besidesDoc

NextDoc == ReadComputeP \/ ReadCache \/ ReadRecap

SpecDoc == InitDoc /\ [][NextDoc]_vars

(***************************************************************************)
(* The labeling of the first extrinsics image of successive cameras:       *)
(* findCorners or the scene labeling, the session of                       *)
(* imgp_objp_visualizer_clicker with its key and mouse handlers, and what  *)
(* calibrate_extrinsics does with the points returned.  Points are counted,*)
(* not located.  An exception raised inside a handler ends that handler    *)
(* and leaves the window open.                                             *)
(***************************************************************************)
\* largest number of cameras labeled in a run
MaxSessions == 2

\* largest number of points shown clicked at a time
MaxClicks == 6

\* [H, W] of the checkerboard of the extrinsics images, and its corners
labeled_corners_nb == <<2, 3>>

NbCorners == labeled_corners_nb[1] * labeled_corners_nb[2]

\* the object points measured in the scene, by rank
object_coords_3d == <<1, 2, 3, 4, 5, 6>>

\* the fewest points 'y' confirms
MinConfirmed == 6

\* the fewest points cv2.solvePnP accepts
MinSolvePnP == 4

\* the assignment of every global
SetGlobals(gi, go, sc, ax, ev, ct) ==
    /\ imgp_confirmed' = gi /\ objp_confirmed' = go /\ scat' = sc
    /\ ax_3d' = ax /\ events' = ev /\ count' = ct

NoEvents == [def |-> FALSE, last |-> ""]

NoCount == [def |-> FALSE, val |-> 0]

\* count = [0 if 'count' not in globals() else count+1][0]
NextCount == [def |-> TRUE, val |-> IF count.def THEN count.val + 1 ELSE 0]

\* s[:-1]
DropLast(s) ==
    [s EXCEPT !.len = IF s.len > 0 THEN s.len - 1 ELSE 0,
              !.pts = IF s.len > 0 THEN SubSeq(s.pts, 1, s.len - 1) ELSE <<>>]

\* (event.xdata, event.ydata) of a left click made when n points are shown: the
\* user clicks the place of the next point, and places are told apart by rank
ClickAt(n) == 10 + n + 1

\* a labeling begins on the first extrinsics image of one or more cameras
InitLabel ==
    /\ CalibIdle /\ P_all = <<>> /\ ReprojIdle /\ YupIdle /\ DocIdle /\ FitIdle /\ ExIdle
    /\ mode \in {"checkerboard", "scene"}
    /\ show \in BOOLEAN
    /\ detected \in BOOLEAN
    /\ session = 1
    /\ lpc = "start"
    /\ imgp_in = Unbound /\ objp_in = Unbound
    /\ NoGlobals
    /\ returned = NoReturn /\ solve = NoSolve

\* findCorners(img, corners_nb, objp=[], show) in checkerboard mode, up to the
\* window of the clicker if it is shown; the clicker itself in scene mode
LabelBegin ==
    /\ lpc = "start"
    /\ IF mode = "checkerboard" /\ ~show
       THEN /\ returned' = [kind |-> "imgp",
                            imgp |-> IF detected THEN ArrayOf(NbCorners) ELSE ListOf(0),
                            objp |-> Unbound]
            /\ lpc' = "returned"
            /\ UNCHANGED <<imgp_in, objp_in, globals>>
       ELSE /\ lpc' = "open"
            /\ imgp_in' = IF mode = "checkerboard" /\ detected
                          THEN ArrayOf(NbCorners) ELSE ListOf(0)
            /\ objp_in' = IF mode = "scene" THEN ArrayOf(Len(object_coords_3d)) ELSE ListOf(0)
            /\ IF mode = "checkerboard" /\ detected
               THEN SetGlobals(Unbound, Unbound, scat, ax_3d, events, count)
               ELSE UNCHANGED globals
            /\ UNCHANGED returned
    /\ UNCHANGED <<mode, show, detected, session, solve>>
    /\ UNCHANGED besidesUi

\* on_key, 'y'
KeyY ==
    /\ lpc = "open"
    /\ LET fresh     == ~scat.def \/ ~imgp_confirmed.def
           nameError == ~fresh /\ ~objp_confirmed.def
           gi1       == IF fresh THEN imgp_in ELSE ArrayPts(imgp_confirmed.pts)
           go1       == IF fresh THEN objp_in ELSE objp_confirmed
           few       == gi1.len < MinConfirmed
           gi2       == IF few THEN ListOf(0) ELSE gi1
           go2       == IF few THEN ListOf(0) ELSE go1
           go3       == IF objp_in.len = 0 THEN Unbound ELSE go2
       IN  IF nameError
           THEN SetGlobals(gi1, objp_confirmed, scat, ax_3d, events, count) /\ lpc' = lpc
           ELSE SetGlobals(gi2, go3, scat, ax_3d, events, count) /\ lpc' = "closed"
    /\ UNCHANGED <<mode, show, detected, session, imgp_in, objp_in, returned, solve>>
    /\ UNCHANGED besidesUi

\* on_key, 'n' or 'q'
KeyN ==
    /\ lpc = "open"
    /\ SetGlobals(ListOf(0), ListOf(0), scat, ax_3d, events, count)
    /\ lpc' = "closed"
    /\ UNCHANGED <<mode, show, detected, session, imgp_in, objp_in, returned, solve>>
    /\ UNCHANGED besidesUi

\* on_key, 'c'
KeyC ==
    /\ lpc = "open"
    /\ SetGlobals(imgp_confirmed, Unbound, ListOf(0),
                  IF objp_in.len # 0 THEN TRUE ELSE ax_3d, events, count)
    /\ UNCHANGED <<mode, show, detected, session, lpc, imgp_in, objp_in, returned, solve>>
    /\ UNCHANGED besidesUi

\* on_key, 'h'
KeyH ==
    /\ lpc = "open"
    /\ count.val < MaxClicks
    /\ IF objp_in.len # 0 /\ ax_3d
       THEN IF ~events.def
            THEN /\ SetGlobals(imgp_confirmed, objp_confirmed, scat, ax_3d,
                               [def |-> TRUE, last |-> "h"], NextCount)
                 /\ lpc' = lpc
            ELSE IF NextCount.val = objp_in.len - 1
            THEN /\ SetGlobals(ArrayPts(imgp_in.pts), objp_confirmed, Unbound, FALSE,
                               NoEvents, NoCount)
                 /\ lpc' = "closed"
            ELSE /\ SetGlobals(imgp_confirmed, objp_confirmed, scat, ax_3d,
                               [def |-> TRUE, last |-> "h"], NextCount)
                 /\ lpc' = lpc
       ELSE UNCHANGED <<globals, lpc>>
    /\ UNCHANGED <<mode, show, detected, session, imgp_in, objp_in, returned, solve>>
    /\ UNCHANGED besidesUi

\* on_click, left button (connected by 'c')
LeftClick ==
    /\ lpc = "open" /\ scat.def
    /\ scat.len < MaxClicks /\ count.val < MaxClicks
    /\ LET xy   == ClickAt(scat.len)
           sc   == ListPts(Append(scat.pts, xy))
           gi   == ArrayPts(Append(scat.pts, xy))
           ev   == [def |-> TRUE, last |-> "click"]
           had  == IF objp_confirmed.def THEN objp_confirmed.pts ELSE <<>>
           \* objp[count], for a count within the object points
           at   == objp_in.pts[NextCount.val + 1]
       IN  IF objp_in.len = 0
           THEN SetGlobals(gi, objp_confirmed, sc, ax_3d, ev, count) /\ lpc' = lpc
           ELSE IF NextCount.val = 0
           THEN SetGlobals(gi, ListPts(<<at>>), sc, ax_3d, ev, NextCount) /\ lpc' = lpc
           ELSE IF NextCount.val = objp_in.len - 1
           THEN /\ SetGlobals(gi, ArrayPts(Append(had, at)), Unbound, FALSE,
                              NoEvents, NoCount)
                /\ lpc' = "closed"
           ELSE IF NextCount.val >= objp_in.len
           THEN SetGlobals(gi, objp_confirmed, sc, ax_3d, ev, NextCount) /\ lpc' = lpc
           ELSE SetGlobals(gi, ListPts(Append(had, at)), sc, ax_3d, ev, NextCount)
                /\ lpc' = lpc
    /\ UNCHANGED <<mode, show, detected, session, imgp_in, objp_in, returned, solve>>
    /\ UNCHANGED besidesUi

\* on_click, right button (connected by 'c')
RightClick ==
    /\ lpc = "open" /\ scat.def
    /\ LET back == IF count.val >= 1 THEN [count EXCEPT !.val = count.val - 1] ELSE count
       IN  IF events.def /\ events.last = "click"
           THEN IF objp_in.len = 0
                THEN SetGlobals(DropLast(imgp_confirmed), objp_confirmed, DropLast(scat),
                                ax_3d, events, count)
                ELSE IF objp_confirmed.def
                THEN SetGlobals(DropLast(imgp_confirmed), DropLast(objp_confirmed),
                                DropLast(scat), ax_3d, events, back)
                ELSE SetGlobals(DropLast(imgp_confirmed), objp_confirmed,
                                DropLast(scat), ax_3d, events, back)
           ELSE IF events.def /\ events.last = "h" /\ objp_in.len # 0
           THEN SetGlobals(imgp_confirmed, objp_confirmed, scat, ax_3d, events, back)
           ELSE UNCHANGED globals
    /\ UNCHANGED <<mode, show, detected, session, lpc, imgp_in, objp_in, returned, solve>>
    /\ UNCHANGED besidesUi

\* the window is closed by hand: plt.show returns and no global is touched
WindowClose ==
    /\ lpc = "open"
    /\ lpc' = "shut"
    /\ UNCHANGED <<mode, show, detected, session, imgp_in, objp_in, globals, returned, solve>>
    /\ UNCHANGED besidesUi

\* the window is closed: the clicker deletes its other globals and returns
\* the pair, the image points alone, or nothing
ClickerReturn ==
    /\ lpc \in {"closed", "shut"}
    /\ SetGlobals(imgp_confirmed, objp_confirmed, Unbound, FALSE, NoEvents, NoCount)
    /\ returned' =
         IF imgp_confirmed.def /\ objp_confirmed.def
         THEN [kind |-> "pair", imgp |-> imgp_confirmed, objp |-> objp_confirmed]
         ELSE IF imgp_confirmed.def
         THEN [kind |-> "imgp", imgp |-> imgp_confirmed, objp |-> Unbound]
         ELSE [kind |-> "None", imgp |-> Unbound, objp |-> Unbound]
    /\ lpc' = "returned"
    /\ UNCHANGED <<mode, show, detected, session, imgp_in, objp_in, solve>>
    /\ UNCHANGED besidesUi

\* cv2.solvePnP(objp, imgp, mtx, dist): an error unless it is given arrays of
\* as many image points as object points, MinSolvePnP at least
solvePnPCall(form, npoints, nobjects) ==
    [called |-> TRUE, imgp |-> form, npoints |-> npoints, nobjects |-> nobjects,
     raised |-> IF form = "array" /\ npoints = nobjects /\ npoints >= MinSolvePnP
                THEN "" ELSE "cv2.error"]

\* calibrate_extrinsics with what was returned: the test imgp == [] and the
\* call of solvePnP.  An array compared with [] is unequal or the comparison
\* raises, as the numpy at hand has it
ExtrinsicsCheck ==
    /\ lpc = "returned"
    /\ LET unpacked == mode = "checkerboard" \/ returned.kind = "pair"
           imgp     == returned.imgp
           form     == IF mode = "checkerboard" /\ returned.kind = "pair" THEN "tuple"
                       ELSE IF returned.kind = "None" THEN "None"
                       ELSE IF imgp.arr THEN "array" ELSE "list"
           nobjects == IF mode = "checkerboard" THEN NbCorners ELSE returned.objp.len
           npoints  == IF form \in {"array", "list"} THEN imgp.len ELSE 0
       IN  IF ~unpacked
           THEN solve' = [NoSolve EXCEPT !.raised = "unpack"] /\ lpc' = "failed"
           ELSE IF form = "list" /\ imgp.len = 0
           THEN solve' = [NoSolve EXCEPT !.raised = "ValueError"] /\ lpc' = "failed"
           ELSE \/ /\ form = "array"
                   /\ solve' = [NoSolve EXCEPT !.raised = "comparison"]
                   /\ lpc' = "failed"
                \/ /\ solve' = solvePnPCall(form, npoints, nobjects)
                   /\ lpc' = IF solve'.raised = "" THEN "solved" ELSE "failed"
    /\ UNCHANGED <<mode, show, detected, session, imgp_in, objp_in, globals, returned>>
    /\ UNCHANGED besidesUi

\* the loop of calibrate_extrinsics goes to the next camera
NextCamera ==
    /\ lpc = "solved" /\ session < MaxSessions
    /\ session' = session + 1
    /\ detected' \in BOOLEAN
    /\ lpc' = "start"
    /\ imgp_in' = Unbound /\ objp_in' = Unbound
    /\ returned' = NoReturn /\ solve' = NoSolve
    /\ UNCHANGED <<mode, show, globals>>
    /\ UNCHANGED besidesUi

NextLabel ==
    \/ LabelBegin \/ KeyY \/ KeyN \/ KeyC \/ KeyH \/ LeftClick \/ RightClick
    \/ WindowClose \/ ClickerReturn \/ ExtrinsicsCheck \/ NextCamera

SpecLabel == InitLabel /\ [][NextLabel]_vars

(***************************************************************************)
(* The scene labeling by clicks alone: 'c' once, then left and right       *)
(* clicks, up to the return of the clicker                                 *)
(***************************************************************************)
InitClicks == InitLabel /\ mode = "scene"

NextClicks ==
    \/ LabelBegin \/ (KeyC /\ ~scat.def) \/ LeftClick \/ RightClick
    \/ ClickerReturn \/ ExtrinsicsCheck \/ NextCamera

SpecClicks == InitClicks /\ [][NextClicks]_vars

(***************************************************************************)
(* The image loop of calibrate_intrinsics for one camera and the fit that  *)
(* follows it.  Images are told apart by their rank in img_vid_files.      *)
(***************************************************************************)
\* largest number of image files of a camera
MaxImages == 10

\* the number of good images under which the fit is said to be inaccurate
MinGoodImages == 10

\* what findCorners can return for an image: without show, the corners found
\* (an array) or []; with show, what imgp_objp_visualizer_clicker returned: a
\* pair whose image points are an array, the pair ([], []), or None
FindCornersResults ==
    IF show_detection_intrinsics THEN {"pair", "dismissed", "None"} ELSE {"imgp", "empty"}

\* isinstance(imgp_confirmed, np.ndarray)
IsNdarray(res) == res \in {"pair", "imgp"}

\* cv2.calibrateCamera(objpoints, imgpoints, ...): an error unless it is given
\* one image at least and as many object-point sets as image-point sets
calibrateCameraCall(nimg, nobj) ==
    [called |-> TRUE, nimg |-> nimg, nobj |-> nobj,
     raised |-> IF nimg >= 1 /\ nimg = nobj THEN "" ELSE "cv2.error"]

\* the loop begins on the image files of a camera, of which there is one at least
InitFit ==
    /\ CalibIdle /\ P_all = <<>> /\ ReprojIdle /\ YupIdle /\ DocIdle /\ UiIdle /\ ExIdle
    /\ show_detection_intrinsics \in BOOLEAN
    /\ nb_files \in 1..MaxImages
    /\ img_nb = 1
    /\ corners = <<>> /\ imgpoints = <<>> /\ objpoints = <<>>
    /\ warned = FALSE /\ camfit = NoFit
    /\ fpc = "images"

\* one image of the loop: findCorners, then both lists grow if the image points
\* are an array; with show the result is unpacked into two names first
FindCornersImage ==
    /\ fpc = "images" /\ img_nb <= nb_files
    /\ \E res \in FindCornersResults :
          /\ corners' = Append(corners, res)
          /\ IF res = "None"
             THEN /\ camfit' = [NoFit EXCEPT !.raised = "TypeError"]
                  /\ fpc' = "failed"
                  /\ UNCHANGED <<img_nb, imgpoints, objpoints>>
             ELSE /\ imgpoints' = IF IsNdarray(res) THEN Append(imgpoints, img_nb)
                                  ELSE imgpoints
                  /\ objpoints' = IF IsNdarray(res) THEN Append(objpoints, img_nb)
                                  ELSE objpoints
                  /\ img_nb' = img_nb + 1
                  /\ UNCHANGED <<camfit, fpc>>
    /\ UNCHANGED <<show_detection_intrinsics, nb_files, warned>>
    /\ UNCHANGED besidesFit

\* after the loop: the message under MinGoodImages images, then the fit
FitCamera ==
    /\ fpc = "images" /\ img_nb > nb_files
    /\ warned' = (Len(imgpoints) < MinGoodImages)
    /\ camfit' = calibrateCameraCall(Len(imgpoints), Len(objpoints))
    /\ fpc' = IF camfit'.raised = "" THEN "done" ELSE "failed"
    /\ UNCHANGED <<show_detection_intrinsics, nb_files, img_nb, corners, imgpoints, objpoints>>
    /\ UNCHANGED besidesFit

NextFit == FindCornersImage \/ FitCamera

SpecFit == InitFit /\ [][NextFit]_vars

(***************************************************************************)
(* extract_frames(video_path, extract_every_N_sec, overwrite_extraction),  *)
(* called again and again on the same video.  Frame files are told apart   *)
(* by their frame number.                                                  *)
(***************************************************************************)
\* largest number of readable frames of a video, and of calls made on it
MaxVideoFrames == 4

MaxCalls == 3

\* the videos: their readable frames, round(cap.get(cv2.CAP_PROP_FPS)), which
\* is 0 when the backend does not know the rate or the rate is under 0.5, and
\* whether cap.isOpened()
Videos ==
    [frames : 0..MaxVideoFrames, fps : 0..3, opened : {TRUE}]
        \cup {[frames |-> 0, fps |-> 0, opened |-> FALSE]}

\* the values given for extract_every_N_sec (it can be < 1)
Intervals == {Frac(1, 2), FInt(1), FInt(2)}

\* fps*extract_every_N_sec
FrameStep == FMul(FInt(video.fps), extract_every_N_sec)

\* frame_nb % (fps*extract_every_N_sec) == 0, for a step that is not 0
IsMultiple(n, step) == (n * step.d) % step.n = 0

\* the first call is made on a video none of whose frames is on disk
InitExtract ==
    /\ CalibIdle /\ P_all = <<>> /\ ReprojIdle /\ YupIdle /\ DocIdle /\ UiIdle /\ FitIdle
    /\ video \in Videos
    /\ extract_every_N_sec \in Intervals
    /\ overwrite_extraction = FALSE
    /\ png = {} /\ png_before = {} /\ wrote = {}
    /\ calls = 0 /\ frame_nb = 0
    /\ xpc = "idle"

\* a call that extracts whether or not video_00000.png exists
ExtractCallUnconditional ==
    /\ xpc \in {"idle", "returned", "raised"} /\ calls < MaxCalls
    /\ calls' = calls + 1
    /\ overwrite_extraction' \in BOOLEAN
    /\ png_before' = png
    /\ wrote' = {}
    /\ frame_nb' = 0
    /\ xpc' = IF video.opened THEN "reading" ELSE "returned"
    /\ UNCHANGED <<video, extract_every_N_sec, png>>
    /\ UNCHANGED besidesEx

\* a call, up to its loop: nothing is done if video_00000.png exists and
\* overwrite_extraction is false, or if the video does not open
ExtractCall ==
    /\ xpc \in {"idle", "returned", "raised"} /\ calls < MaxCalls
    /\ calls' = calls + 1
    /\ overwrite_extraction' \in BOOLEAN
    /\ png_before' = png
    /\ wrote' = {}
    /\ frame_nb' = 0
    /\ xpc' = IF (0 \notin png \/ overwrite_extraction') /\ video.opened
              THEN "reading" ELSE "returned"
    /\ UNCHANGED <<video, extract_every_N_sec, png>>
    /\ UNCHANGED besidesEx

\* one frame read in the loop: the modulo raises ZeroDivisionError on a step of
\* 0, else the frame is written if its number is a multiple of the step
ExtractFrame ==
    /\ xpc = "reading" /\ frame_nb < video.frames
    /\ IF FrameStep.n = 0
       THEN /\ xpc' = "raised"
            /\ UNCHANGED <<png, wrote, frame_nb>>
       ELSE /\ png' = IF IsMultiple(frame_nb, FrameStep) THEN png \cup {frame_nb} ELSE png
            /\ wrote' = IF IsMultiple(frame_nb, FrameStep) THEN wrote \cup {frame_nb}
                        ELSE wrote
            /\ frame_nb' = frame_nb + 1
            /\ xpc' = xpc
    /\ UNCHANGED <<video, extract_every_N_sec, overwrite_extraction, png_before, calls>>
    /\ UNCHANGED besidesEx

\* cap.read() fails: the loop is left and the call returns
ExtractReturn ==
    /\ xpc = "reading" /\ frame_nb >= video.frames
    /\ xpc' = "returned"
    /\ UNCHANGED <<video, extract_every_N_sec, overwrite_extraction, png, png_before,
                   wrote, calls, frame_nb>>
    /\ UNCHANGED besidesEx

NextExtract == ExtractCall \/ ExtractFrame \/ ExtractReturn

SpecExtract == InitExtract /\ [][NextExtract]_vars

(***************************************************************************)
(* Properties of the calibration                                           *)
(***************************************************************************)
IsQualisys == cfg.calib_full_type = "convert_qualisys"

\* what the reader of the run returns for the file f
Reader(f) == IF IsQualisys THEN read_qca(f, cfg.binning_factor) ELSE read_vicon(f)

\* the positions of the cameras of f whose model is a video model
VideoCameras(f) == {j \in 1..Len(f) : f[j].model \in VideoModels}

\* whether entry k of the lists l holds, in every list, what the reader reads
\* from the camera cam alone
ReadFrom(l, k, cam) ==
    LET o == Reader(<<cam>>)
    IN  /\ o.C = <<l.C[k]>>
        /\ k <= Len(l.ret) /\ l.ret[k] = o.ret[1]
        /\ k <= Len(l.S) /\ l.S[k] = o.S[1]
        /\ k <= Len(l.D) /\ l.D[k] = o.D[1]
        /\ k <= Len(l.K) /\ l.K[k] = o.K[1]
        /\ k <= Len(l.R) /\ l.R[k] = o.R[1]
        /\ k <= Len(l.T) /\ l.T[k] = o.T[1]

ZeroPose == <<ZeroText, ZeroText, ZeroText>>

\* C1: when calib_board_fun returns, the seven lists ret, C, S, D, K, R, T all
\* have the same length, whatever the intrinsics and extrinsics sides hold
C1_ListsSameLength ==
    (IsBoard /\ pc = "returned") =>
        /\ Len(ret) = Len(C) /\ Len(S) = Len(C) /\ Len(D) = Len(C)
        /\ Len(K) = Len(C) /\ Len(R) = Len(C) /\ Len(T) = Len(C)

\* whether no two cameras of the file f have the same name
DistinctNames(f) == \A j, k \in 1..Len(f) : j # k => f[j].name # f[k].name

\* C2: in both vendor readers, for a file of cameras of distinct names, every
\* output index k holds, in every list (ret included), the values read from the
\* camera whose name is C[k]
C2_PermutationOnEveryList ==
    (~IsBoard /\ pc = "returned" /\ DistinctNames(xml)) =>
        LET l == Reader(xml)
        IN  /\ ret = l.ret /\ C = l.C
            /\ \A k \in 1..Len(l.C) : \E j \in 1..Len(xml) : ReadFrom(l, k, xml[j])

\* C3 (as the code has it): read_qca returns one entry per camera whose model
\* is a video model, under the names of those cameras and with the size of such
\* a camera; read_vicon tests no model and returns one entry per camera of the
\* file, under the names of all of them
C3_QcaExcludesViconKeeps ==
    (~IsBoard /\ pc = "returned") =>
        LET kept == IF IsQualisys THEN VideoCameras(xml) ELSE 1..Len(xml)
            l    == Reader(xml)
        IN  /\ C = l.C /\ S = l.S
            /\ Len(C) = Cardinality(kept)
            /\ Len(ret) = Len(C) /\ Len(S) = Len(C) /\ Len(D) = Len(C)
            /\ Len(K) = Len(C) /\ Len(R) = Len(C) /\ Len(T) = Len(C)
            /\ \A k \in 1..Len(C) : \E j \in kept :
                    xml[j].name = C[k] /\ S[k] = Reader(<<xml[j]>>).S[1]
            /\ \A j \in kept : \E k \in 1..Len(C) : C[k] = xml[j].name

\* C3 (as claimed): the cameras both readers return are exactly the cameras of
\* the file whose model is a video model
C3_BothExcludeNonVideo ==
    (~IsBoard /\ pc = "returned") =>
        /\ Len(C) = Cardinality(VideoCameras(xml))
        /\ \A k \in 1..Len(C) : \E j \in VideoCameras(xml) : xml[j].name = C[k]
        /\ \A j \in VideoCameras(xml) : \E k \in 1..Len(C) : C[k] = xml[j].name

\* a Qualisys file of one video and one other camera has given one camera
C3_Witness ==
    /\ IsQualisys /\ pc = "returned"
    /\ Len(xml) = 2 /\ Cardinality(VideoCameras(xml)) = 1
    /\ Len(C) = 1

\* a run of calib_board_fun that found a calibration file and was not asked to
\* overwrite the intrinsics (the file is that of the start until toml_write)
CachePrecondition ==
    /\ IsBoard /\ pc \in {"intrinsics", "intrinsics_ready", "extrinsics", "returned"}
    /\ disk.exists /\ ~cfg.overwrite_intrinsics

\* name, size, matrix and distortions of every camera are those of the file
IntrinsicsOfFile ==
    LET file == TomlLoad(disk.file).cams
    IN  /\ Len(C) = Len(file) /\ Len(S) = Len(file)
        /\ Len(K) = Len(file) /\ Len(D) = Len(file)
        /\ \A c \in 1..Len(file) :
                /\ C[c] = file[c].name
                /\ S[c] = file[c].size
                /\ K[c] = file[c].matrix
                /\ D[c] = file[c].distortions

AllZeroErrors == \A c \in 1..Len(ret) : ret[c] = FInt(0)

\* C4 (as the code has it): with a prior file and overwrite_intrinsics false,
\* calibrate_intrinsics is not called, name, size, matrix and distortions are
\* those of the file, and every error is 0.0 when the intrinsics are retrieved
\* and when calib_board_fun returns without calculating the extrinsics
C4_CacheFastPath ==
    CachePrecondition =>
        /\ intrinsicsCalls = 0 /\ cached
        /\ IntrinsicsOfFile
        /\ (pc = "intrinsics_ready" \/ (pc = "returned" /\ ~cfg.calculate_extrinsics)) =>
                Len(ret) = Len(C) /\ AllZeroErrors

\* C4 (as claimed): with a prior file and overwrite_intrinsics false,
\* calibrate_intrinsics is not called, name, size, matrix and distortions are
\* those of the file, and every error calib_board_fun returns is 0.0
C4_CacheReportsZero ==
    CachePrecondition =>
        /\ intrinsicsCalls = 0
        /\ IntrinsicsOfFile
        /\ pc = "returned" => AllZeroErrors

\* a cached run has returned, with its extrinsics calculated, an error that is
\* not 0.0
C4_Witness ==
    /\ CachePrecondition /\ pc = "returned" /\ cfg.calculate_extrinsics
    /\ Len(C) >= 1
    /\ \E c \in 1..Len(ret) : ret[c] # FInt(0)

\* C5: with calculate_extrinsics false, every camera calib_board_fun returns has
\* rotation (0,0,0) and translation (0,0,0), and so has every camera block of
\* the file then written, whatever the prior file held
C5_NoExtrinsicsZeroPose ==
    (IsBoard /\ ~cfg.calculate_extrinsics) =>
        /\ pc = "returned" =>
                /\ Len(R) = Len(C) /\ Len(T) = Len(C)
                /\ \A c \in 1..Len(C) : R[c] = Vec(<<0, 0, 0>>) /\ T[c] = <<0, 0, 0>>
        /\ pc \in {"written", "done", "loaded"} =>
                /\ Len(disk.file.cams) = Len(C)
                /\ \A c \in 1..Len(disk.file.cams) :
                        /\ disk.file.cams[c].rotation = ZeroPose
                        /\ disk.file.cams[c].translation = ZeroPose

\* a cached run without extrinsics has returned cameras while the prior file
\* holds a rotation that is not zero
C5_Witness ==
    /\ IsBoard /\ ~cfg.calculate_extrinsics /\ cached /\ pc = "returned"
    /\ Len(R) >= 1
    /\ \E c \in 1..Len(disk.file.cams) : disk.file.cams[c].rotation # ZeroPose

\* C6: the error calibrate_extrinsics gives a camera is the root mean square of
\* the distances of its N points: error^2 . N = d_1^2 + ... + d_N^2
C6_ErrorIsRootMeanSquare ==
    (IsBoard /\ pc \in {"extrinsics", "returned"} /\ cfg.calculate_extrinsics) =>
        \A c \in 1..Len(sqdists) :
            /\ c <= Len(ret)
            /\ FMul(ret[c], FInt(Len(sqdists[c]))) = FSum(sqdists[c])

\* whether the six lists given to toml_write have the same length
SameLength(l) ==
    /\ Len(l.S) = Len(l.C) /\ Len(l.D) = Len(l.C) /\ Len(l.K) = Len(l.C)
    /\ Len(l.R) = Len(l.C) /\ Len(l.T) = Len(l.C)

\* the first four distortion coefficients, those toml_write stores
StoredDistortions(d) == SubSeq(d, 1, 4)

\* whether reading the file f back gives the cameras of the lists l, in order
ReadsBack(f, l) ==
    LET back == TomlLoad(f)
    IN  /\ back.ok
        /\ Len(back.cams) = Len(l.C)
        /\ \A c \in 1..Len(l.C) :
                /\ back.cams[c].name = l.C[c]
                /\ back.cams[c].matrix = l.K[c]
                /\ back.cams[c].distortions = StoredDistortions(l.D[c])
                /\ l.R[c].shape = <<3>> /\ back.cams[c].rotation = l.R[c].data
                /\ back.cams[c].translation = l.T[c]

\* C9: a list of N cameras written by toml_write and read back gives N camera
\* blocks in the same order with the name, matrix, distortions, rotation and
\* translation written; so do the cache path of calib_board_fun (name, matrix,
\* distortions) and computeP (the projection matrices of the values written)
C9_RoundTrip ==
    (disk.exists /\ SameLength(written)) =>
        /\ ReadsBack(disk.file, written)
        /\ (IsBoard /\ cached /\ pc = "intrinsics_ready") =>
                /\ C = written.C
                /\ K = written.K
                /\ D = [c \in 1..Len(written.D) |-> StoredDistortions(written.D[c])]
        /\ pc = "loaded" =>
                P_all = [c \in 1..Len(written.C) |->
                            ProjectionMatrix(written.K[c], written.R[c].data, written.T[c])]

\* the file of two cameras of a board calibration, one of them rotated and one
\* with a negative translation, has been written and loaded
C9_Witness ==
    /\ pc = "loaded" /\ SameLength(written)
    /\ Len(written.C) = 2 /\ Len(P_all) = 2
    /\ \E c \in 1..2 : written.R[c] # Vec(<<0, 0, 0>>)
    /\ \E c \in 1..2 : \E k \in 1..3 : written.T[c][k] < 0
    /\ IsBoard

\* C10: every file toml_write leaves has, in each camera block, a matrix with 0
\* at (1,2), (2,1), (3,1), (3,2) and 1 at (3,3), a rotation of three numbers,
\* four distortions and fisheye false, and ends with exactly one metadata block
\* with adjusted = false and error = 0.0
C10_FileWellFormed ==
    disk.exists =>
        /\ \A c \in 1..Len(disk.file.cams) :
                LET b == disk.file.cams[c]
                IN  /\ b.matrix[1][2] = ZeroText /\ b.matrix[2][1] = ZeroText
                    /\ b.matrix[3][1] = ZeroText /\ b.matrix[3][2] = ZeroText
                    /\ b.matrix[3][3] = OneText
                    /\ Len(b.rotation) = 3
                    /\ \A k \in 1..3 : IsFloatText(b.rotation[k])
                    /\ Len(b.distortions) = 4
                    /\ b.fisheye = "false"
        /\ disk.file.meta = <<MetaBlock>>

(***************************************************************************)
(* Properties of the reprojection                                          *)
(***************************************************************************)
\* the rows of the trajectory the loop has gone through
RowsDone == 1..(row - 1)

\* the homogeneous point of keypoint k of row r, as given to reprojection
PointOf(r, k) == HomogeneousPoint(QTable, r, k)

\* the x and y stored for keypoint k of row r in the table of camera cam
StoredX(cam, r, k) == data_proj[cam][r][2 * k - 1]

StoredY(cam, r, k) == data_proj[cam][r][2 * k]

\* C7: for every camera whose P gives row2 . Q = 0 the x and y stored for Q are
\* non-finite, they are finite for the cameras whose row2 . Q is not 0, what is
\* stored is what reprojection returned, and the run raises no error over it
\* (the one error of a run comes after every row, from another output format)
C7_DegenerateDenominatorPropagates ==
    /\ rpc = "failed" =>
        fmt \notin {"deeplabcut", "openpose"} /\ row = Len(QTable.values) + 1
    /\ rpc # "start" =>
        \A cam \in 1..Len(P_all) : \A r \in RowsDone : \A k \in 1..NumMarkers :
            LET Q   == PointOf(r, k)
                out == reprojection(P_all, Q)
            IN  /\ StoredX(cam, r, k) = out.x_calc[cam]
                /\ StoredY(cam, r, k) = out.y_calc[cam]
                /\ Dot(P_all[cam][3], Q) = 0 =>
                        ~IsFinite(StoredX(cam, r, k)) /\ ~IsFinite(StoredY(cam, r, k))
                /\ Dot(P_all[cam][3], Q) # 0 =>
                        IsFinite(StoredX(cam, r, k)) /\ IsFinite(StoredY(cam, r, k))

\* a point at the optical centre of one camera has been stored for two cameras,
\* non-finite for the one and finite for the other
C7_Witness ==
    /\ rpc = "save" /\ Len(P_all) = 2
    /\ \E cam, other \in 1..2 : \E r \in RowsDone : \E k \in 1..NumMarkers :
            /\ Dot(P_all[cam][1], PointOf(r, k)) = 0
            /\ Dot(P_all[cam][2], PointOf(r, k)) = 0
            /\ Dot(P_all[cam][3], PointOf(r, k)) = 0
            /\ ~IsFinite(StoredX(cam, r, k))
            /\ IsFinite(StoredX(other, r, k))

\* C8: computeP gives every camera P = [K . R_mat | K . T] of the parameters of
\* the file; the x and y stored for a point Q are (row0 . Q)/(row2 . Q) and
\* (row1 . Q)/(row2 . Q); a camera with no rotation and T = (0,0,5) sends every
\* point (0,0,z,1), z # -5, to its principal point (cx, cy)
C8_ProjectionMatrix ==
    rpc # "start" =>
        /\ Len(P_all) = Len(calibLists.C)
        /\ \A cam \in 1..Len(P_all) :
            LET Kc == calibLists.K[cam]
                Rm == RodriguesMat(calibLists.R[cam].data)
                Tc == calibLists.T[cam]
                P  == P_all[cam]
            IN  /\ \A a \in 1..3 :
                    /\ \A b \in 1..3 :
                         P[a][b] = Kc[a][1] * Rm[1][b] + Kc[a][2] * Rm[2][b] + Kc[a][3] * Rm[3][b]
                    /\ P[a][4] = Kc[a][1] * Tc[1] + Kc[a][2] * Tc[2] + Kc[a][3] * Tc[3]
                /\ \A r \in RowsDone : \A k \in 1..NumMarkers :
                    LET Q == PointOf(r, k)
                    IN  /\ StoredX(cam, r, k) = FDiv(Dot(P[1], Q), Dot(P[3], Q))
                        /\ StoredY(cam, r, k) = FDiv(Dot(P[2], Q), Dot(P[3], Q))
                        /\ (/\ calibLists.R[cam].data = <<0, 0, 0>> /\ Tc = <<0, 0, 5>>
                            /\ Q[1] = 0 /\ Q[2] = 0 /\ Q[3] # -5) =>
                                /\ StoredX(cam, r, k) = FInt(Kc[1][3])
                                /\ StoredY(cam, r, k) = FInt(Kc[2][3])

\* a point (0,0,z,1), z # -5, has been reprojected on a camera with no rotation
\* and T = (0,0,5) whose principal point is not the origin
C8_Witness ==
    /\ rpc = "save"
    /\ \E cam \in 1..Len(P_all) : \E r \in RowsDone : \E k \in 1..NumMarkers :
            /\ calibLists.R[cam].data = <<0, 0, 0>> /\ calibLists.T[cam] = <<0, 0, 5>>
            /\ PointOf(r, k)[1] = 0 /\ PointOf(r, k)[2] = 0 /\ PointOf(r, k)[3] # -5
            /\ calibLists.K[cam][1][3] # 0
            /\ StoredX(cam, r, k) = FInt(calibLists.K[cam][1][3])

(***************************************************************************)
(* Properties of yup2zup                                                   *)
(***************************************************************************)
\* whether table B holds the columns of table A with every triplet (x, y, z)
\* in the order (z, x, y), triplets in their order
TripletsTurned(A, B) ==
    /\ Len(B.columns) = Len(A.columns)
    /\ Len(B.values) = Len(A.values)
    /\ \A t \in 0..((Len(A.columns) \div 3) - 1) :
        /\ B.columns[3 * t + 1] = A.columns[3 * t + 3]
        /\ B.columns[3 * t + 2] = A.columns[3 * t + 1]
        /\ B.columns[3 * t + 3] = A.columns[3 * t + 2]
        /\ \A r \in 1..Len(A.values) :
            /\ B.values[r][3 * t + 1] = A.values[r][3 * t + 3]
            /\ B.values[r][3 * t + 2] = A.values[r][3 * t + 1]
            /\ B.values[r][3 * t + 3] = A.values[r][3 * t + 2]

\* C11: yup2zup puts every triplet (x, y, z) in the order (z, x, y), keeping
\* the triplets in their order and every column, the empty table included;
\* applied three times in all it gives back the table it started from
C11_Yup2ZupTurnsTriplets ==
    /\ yups = 1 => TripletsTurned(Q0, Qcur)
    /\ yups = 2 => TripletsTurned(Qcur, Q0)
    /\ yups = 3 => Qcur = Q0

\* a table of two triplets with a row of values that differ within a triplet
\* has been turned three times
C11_Witness ==
    /\ yups = 3
    /\ Len(Q0.columns) = 6 /\ Len(Q0.values) = 1
    /\ Q0.values[1][1] # Q0.values[1][2]
    /\ Q0.values[1][5] # Q0.values[1][6]

\* the empty table has been turned
C11_WitnessEmpty == yups = 3 /\ Q0.columns = <<>> /\ Qcur.columns = <<>>

\* the homogeneous Z-up point of marker k of frame r of the trajectory file
FramePoint(r, k) == <<trc[r][k][3], trc[r][k][1], trc[r][k][2], 1>>

\* the reprojection of marker k of frame r onto camera cam
Reprojected(cam, r, k) ==
    [x |-> FDiv(Dot(P_all[cam][1], FramePoint(r, k)), Dot(P_all[cam][3], FramePoint(r, k))),
     y |-> FDiv(Dot(P_all[cam][2], FramePoint(r, k)), Dot(P_all[cam][3], FramePoint(r, k)))]

\* C12: once the OpenPose records of a trajectory of more than one frame are
\* written there is exactly one record per camera and frame, and the record of
\* camera c and frame f holds, at the places of every marker's id, the
\* reprojection onto camera c of that marker in frame f, followed by 1
C12_JsonRecordHoldsItsFrame ==
    (rpc = "done" /\ fmt = "openpose" /\ Len(trc) > 1) =>
        /\ \A c \in 1..Len(P_all) : \A f \in 1..Len(trc) :
                Cardinality({n \in DOMAIN json_files :
                                json_files[n].cam = c /\ json_files[n].frame = f}) = 1
        /\ Len(json_files) = Len(P_all) * Len(trc)
        /\ \A n \in DOMAIN json_files : \A k \in 1..NumMarkers :
                LET rec == json_files[n]
                    id  == bodyparts_ids[k]
                IN  /\ rec.pose_keypoints_2d[3 * id + 1] = Reprojected(rec.cam, rec.frame, k).x
                    /\ rec.pose_keypoints_2d[3 * id + 2] = Reprojected(rec.cam, rec.frame, k).y
                    /\ rec.pose_keypoints_2d[3 * id + 3] = FInt(1)

\* C13: every camera's table has one row per frame of the file; a row the loop
\* has passed holds, for every marker k, the reprojection onto that camera of
\* marker k of the frame of the same rank, x then y at the k-th pair of columns;
\* the rows the loop has not reached are still NaN
C13_TableKeepsFrameOrder ==
    rpc # "start" =>
        /\ Len(data_proj) = Len(P_all)
        /\ \A cam \in 1..Len(P_all) :
            /\ Len(data_proj[cam]) = Len(trc)
            /\ \A r \in 1..Len(trc) :
                /\ Len(data_proj[cam][r]) = 2 * NumMarkers
                /\ \A k \in 1..NumMarkers :
                    IF r < row
                    THEN /\ data_proj[cam][r][2 * k - 1] = Reprojected(cam, r, k).x
                         /\ data_proj[cam][r][2 * k] = Reprojected(cam, r, k).y
                    ELSE /\ data_proj[cam][r][2 * k - 1] = NaN
                         /\ data_proj[cam][r][2 * k] = NaN

\* the tables of two cameras are complete for a file of two different frames,
\* the two rows of the first table differ and so do the two tables
C13_Witness ==
    /\ rpc = "save" /\ Len(P_all) = 2 /\ Len(trc) = 2
    /\ trc[1] # trc[2]
    /\ data_proj[1][1] # data_proj[1][2]
    /\ data_proj[1] # data_proj[2]
    /\ \E k \in 1..NumMarkers : IsFinite(data_proj[2][2][2 * k])

\* C20: a calibration whose calibration_type, convert_from or calculate_method
\* is not supported ends in an error and leaves no calibration file; a
\* reprojection whose output format is neither of the two ends in an error and
\* never reaches the writing of a per-camera file: no .h5, .csv or .json exists
C20_UnsupportedSelectorFatal ==
    /\ cfg \in UnsupportedConfigs =>
        /\ pc \in {"start", "failed"}
        /\ pc = "failed" => err.kind = "UnboundLocalError"
        /\ ~disk.exists /\ written = EmptyLists
    /\ fmt \notin {"deeplabcut", "openpose"} =>
        /\ rpc \in {"start", "rows", "save", "failed"}
        /\ h5_files = <<>> /\ csv_files = <<>> /\ json_files = <<>>

\* both runs have ended in their error, the reprojection after it had created
\* the folders of two cameras and filled their tables
C20_Witness ==
    /\ cfg \in UnsupportedConfigs /\ pc = "failed"
    /\ fmt = "other" /\ rpc = "failed"
    /\ cam_dirs = 2 /\ row = Len(trc) + 1 /\ Len(trc) > 0

\* C14: a run calls toml_write at most once; the file changes only in the step
\* taken once the calibration function has returned, which writes the lists
\* it returned; a run that has not reached that step (the function is still
\* running, or has failed) has written nothing, and no step of it, the
\* failing one included, changes the file
C14_WrittenOnceAfterReturn ==
    /\ [](/\ writes <= 1
          /\ pc \in {"start", "intrinsics", "intrinsics_ready", "extrinsics", "returned"}
                => writes = 0
          /\ writes = 1 => pc \in {"written", "done", "loaded", "failed"})
    /\ [][(disk' # disk \/ writes' > writes) =>
                /\ pc = "returned" /\ writes = 0 /\ writes' = 1
                /\ written' = Lists(ret, C, S, D, K, R, T)]_vars
    /\ [][(pc' = "failed" /\ pc # "returned") => (disk' = disk /\ writes' = writes)]_vars

\* a second run has failed in its loop over cameras, after the first camera,
\* without a write, and the file of the first run is on disk
C14_Witness ==
    /\ pc = "failed" /\ writes = 0 /\ i > 1
    /\ disk.exists /\ Len(written.C) > 0

\* a run has written the file once, after both cameras were calibrated
C14_WitnessWritten ==
    /\ pc = "done" /\ writes = 1 /\ disk.exists
    /\ cfg.calculate_extrinsics /\ Len(written.R) = 2 /\ Len(written.C) = 2

\* C15: the loop of a stage runs only if its folder is present; a run stopped
\* for an absent folder names that folder, has processed no camera of the
\* stage and written nothing; a run stopped for a camera folder without files
\* names that camera folder, has processed exactly the cameras before it and
\* written nothing; and a stopped run processes no camera and writes nothing
\* until it is started again, so that no result is returned
C15_MissingInputStopsRun ==
    /\ [](/\ pc = "intrinsics" => intrDirs.present
          /\ pc = "extrinsics" => extrDirs.present
          /\ err.kind = "no_intrinsics_folder" =>
                /\ pc = "failed" /\ ~intrDirs.present /\ writes = 0
                /\ err.dir = "intrinsics" /\ err.cam = 0
                /\ Len(C) = 0 /\ Len(K) = 0
          /\ err.kind = "no_extrinsics_folder" =>
                /\ pc = "failed" /\ ~extrDirs.present /\ writes = 0
                /\ err.dir = "extrinsics" /\ err.cam = 0
          /\ err.kind = "no_files" =>
                /\ pc = "failed" /\ writes = 0
                /\ \/ /\ err.dir = "intrinsics" /\ i \in 1..Len(intrDirs.cams)
                      /\ err.cam = intrDirs.cams[i] /\ Len(C) = i - 1 /\ Len(K) = i - 1
                   \/ /\ err.dir = "extrinsics" /\ i \in 1..Len(extrDirs.cams)
                      /\ err.cam = extrDirs.cams[i] /\ Len(R) = i - 1 /\ Len(T) = i - 1)
    /\ [][pc = "failed" =>
            \/ pc' = "failed" /\ lists' = lists /\ disk' = disk /\ i' = i
            \/ pc' = "start" /\ writes' = 0]_vars

\* the first of two extrinsics cameras has no file: the run has stopped there,
\* the second camera unprocessed
C15_Witness ==
    /\ pc = "failed" /\ err.kind = "no_files" /\ err.dir = "extrinsics"
    /\ i = 1 /\ Len(extrDirs.cams) = 2 /\ err.cam = extrDirs.cams[1]
    /\ Len(R) = 0

\* the extrinsics folder is absent and the run has stopped after its intrinsics
C15_WitnessFolder ==
    /\ pc = "failed" /\ err.kind = "no_extrinsics_folder" /\ Len(K) > 0

\* C16: a camera of the extrinsics loop for which no correspondences were
\* obtained does not stop the run: the run is never left by that camera's error
C16_CameraFailureKeepsRun ==
    err.kind = "no_corners" => pc # "failed"

\* the file read holds one more table than toml_write gave it
HasUnknownBlock == Len(doc) = Len(docLists.C) + 2

\* C19: a file of N camera tables, the metadata table and one more top-level
\* table is read by every consumer without error and gives N cameras
C19_UnknownBlockTolerated ==
    (HasUnknownBlock /\ dpc # "start") =>
        /\ dpc = "done"
        /\ outcome.raised = ""
        /\ outcome.cameras = Len(docLists.C)

\* the clicker has returned from a window it had opened
ClickerReturned == lpc = "returned" /\ imgp_in.def

\* nothing, or no image point
Cancelled(res) == res.kind = "None" \/ res.imgp.len = 0

\* C18: what the clicker returns is a cancellation, or at least 4 image points
\* with, when object points are returned, at least 4 of them too
C18_CancelledOrFourPoints ==
    ClickerReturned =>
        \/ Cancelled(returned)
        \/ /\ returned.imgp.len >= MinSolvePnP
           /\ returned.kind = "pair" => returned.objp.len >= MinSolvePnP

\* C17: in checkerboard mode, when no image point was obtained for the camera
\* (nothing returned, or an empty set), the stage has raised and solvePnP was
\* not called
C17_NoPointsNoSolve ==
    (mode = "checkerboard" /\ lpc \in {"solved", "failed"} /\ Cancelled(returned)) =>
        /\ lpc = "failed"
        /\ ~solve.called

\* the images of the loop gone through for which findCorners gave an array
Accepted == {n \in 1..Len(corners) : IsNdarray(corners[n])}

\* C21: the fit of a camera is called only with one accepted image at least and
\* one object-point set per image-point set; with 1 to 9 accepted images it is
\* called, does not fail and the message is logged; an image without corners
\* is in neither list
C21_FitNeedsAnAcceptedImage ==
    /\ camfit.called => camfit.nimg >= 1 /\ camfit.nimg = camfit.nobj
    /\ (fpc \in {"done", "failed"} /\ camfit.called /\ camfit.nimg \in 1..(MinGoodImages - 1))
          => fpc = "done" /\ warned
    /\ \A n \in 1..Len(corners) :
          ~IsNdarray(corners[n]) =>
              /\ \A k \in 1..Len(imgpoints) : imgpoints[k] # n
              /\ \A k \in 1..Len(objpoints) : objpoints[k] # n

\* the intrinsics of every camera are at hand: one matrix and one distortion per
\* camera table of the file read, or per folder of calib_dir/intrinsics
IntrinsicsAvailable ==
    /\ Len(K) = Len(D)
    /\ IF cached
       THEN /\ disk.exists /\ TomlLoad(disk.file).ok
            /\ Len(K) = Len(TomlLoad(disk.file).cams)
       ELSE /\ intrinsicsCalls = 1 /\ intrDirs.present
            /\ Len(K) = Len(intrDirs.cams)

\* C22: in a board run the extrinsics stage is entered from intrinsics-ready
\* only, with the intrinsics of every camera fitted or read from the file; the
\* run returns from intrinsics-ready or from the extrinsics stage only; with
\* calculate_extrinsics false the extrinsics stage is never entered
C22_StageOrdering ==
    /\ [](pc = "extrinsics" => IsBoard /\ cfg.calculate_extrinsics /\ IntrinsicsAvailable)
    /\ [][(pc' = "extrinsics" /\ pc # "extrinsics") => pc = "intrinsics_ready"]_vars
    /\ [][(IsBoard /\ pc' = "returned" /\ pc # "returned")
            => /\ pc \in {"intrinsics_ready", "extrinsics"}
               /\ IntrinsicsAvailable
               /\ pc = "extrinsics" <=> cfg.calculate_extrinsics]_vars
    /\ [][(pc' = "intrinsics_ready" /\ pc # "intrinsics_ready")
            => pc \in {"start", "intrinsics"} /\ IntrinsicsAvailable']_vars

\* the extrinsics loop is at its second camera after two cameras were fitted
C22_Witness ==
    /\ pc = "extrinsics" /\ i = 2 /\ ~cached /\ Len(K) = 2

\* the extrinsics loop runs on intrinsics read from the file
C22_WitnessCached ==
    /\ pc = "extrinsics" /\ cached /\ Len(K) >= 1

\* the frame numbers of the video that are k * fps * extract_every_N_sec for a
\* whole k, the step being 1/2 at least when it is not 0
StepMultiples ==
    {n \in 0..(video.frames - 1) :
        \E k \in 0..(2 * MaxVideoFrames) : FMul(FInt(k), FrameStep) = FInt(n)}

\* C23: a call with overwrite_extraction false made when frames of the video
\* are on disk writes no file and leaves the set of files as it was; once a
\* call that extracted frames has returned, frame n is on disk exactly when n
\* is a multiple of fps * extract_every_N_sec, frame 0 among them
C23_ExtractFramesIdempotent ==
    /\ (calls >= 1 /\ ~overwrite_extraction /\ png_before # {})
          => wrote = {} /\ png = png_before
    /\ png # {} => 0 \in png /\ video.frames >= 1
    /\ (xpc = "returned" /\ png # {}) => png = StepMultiples

\* a second call has returned after a first call that extracted two frames at
\* least, and not all of them
C23_Witness ==
    /\ calls = 2 /\ xpc = "returned" /\ ~overwrite_extraction
    /\ Cardinality(png_before) >= 2 /\ Cardinality(png_before) < video.frames

\* a call meets a step of 0 (a rate the backend reports as 0): it raises on the
\* first frame and extracts nothing
C23_WitnessNoRate ==
    /\ xpc = "raised" /\ video.frames >= 1 /\ png = {}

\* the names of the nodes of the BODY_25B tree
TreeNames == {n[1] : n \in BODY_25B}

\* the marker of the trajectory whose node has the id joint, 0 if there is none
MarkerOfJoint(joint) ==
    LET ks == {k \in DOMAIN Markers :
                 \E n \in BODY_25B : n[1] = Markers[k] /\ n[2] = joint}
    IN  IF ks = {} THEN 0 ELSE CHOOSE k \in ks : TRUE

\* C24: every record written has 75 keypoint entries; for a marker whose joint
\* has id i, entries 3i, 3i+1, 3i+2 (counted from 0) are (x, y, 1) of that
\* marker in a row of the camera's table, and the entries of a joint without
\* marker are 0; a run whose marker names are all nodes of the tree ends with
\* one record per camera and frame
C24_OpenPoseRecordLayout ==
    /\ \A n \in DOMAIN json_files :
          LET rec == json_files[n].pose_keypoints_2d
              cam == json_files[n].cam
          IN  /\ Len(rec) = 3 * nb_joints
              /\ \E r \in 1..Len(trc) : \A joint \in 0..(nb_joints - 1) :
                    LET k == MarkerOfJoint(joint)
                    IN  IF k = 0
                        THEN /\ rec[3 * joint + 1] = FInt(0)
                             /\ rec[3 * joint + 2] = FInt(0)
                             /\ rec[3 * joint + 3] = FInt(0)
                        ELSE /\ rec[3 * joint + 1] = data_proj[cam][r][2 * k - 1]
                             /\ rec[3 * joint + 2] = data_proj[cam][r][2 * k]
                             /\ rec[3 * joint + 3] = FInt(1)
    /\ (fmt = "openpose" /\ rpc \in {"done", "failed"}
           /\ \A k \in DOMAIN Markers : Markers[k] \in TreeNames)
          => /\ rpc = "done"
             /\ Len(json_files) = Len(P_all) * Len(trc)

\* C25: when a board run with extrinsics returns, every index k of R and T,
\* which hold the pose of the k-th folder of calib_dir/extrinsics, holds in K
\* and D the matrix and distortion fitted for the folder of the same name under
\* calib_dir/intrinsics, whatever the order of the two listings
C25_SameCameraAtEveryIndex ==
    (IsBoard /\ pc = "returned" /\ cfg.calculate_extrinsics /\ ~cached) =>
        \A k \in 1..Len(R) :
            LET id == extrDirs.cams[k]
            IN  (\E j \in 1..Len(intrDirs.cams) : intrDirs.cams[j] = id) =>
                    /\ T[k] = solvePnP(id).t
                    /\ k <= Len(K) /\ K[k] = calibrateCamera(id).mtx
                    /\ k <= Len(D) /\ D[k] = calibrateCamera(id).dist

\* the positions of the cameras of f the reader of the run keeps
Retained(f) == IF IsQualisys THEN VideoCameras(f) ELSE 1..Len(f)

\* whether entry k of the lists l holds the name, size, matrix and translation
\* read from the camera cam
HoldsCamera(l, k, cam) ==
    LET o == Reader(<<cam>>)
    IN  /\ l.C[k] = o.C[1] /\ l.S[k] = o.S[1] /\ l.K[k] = o.K[1] /\ l.T[k] = o.T[1]

\* C30: what read_qca and read_vicon return is a permutation of the cameras
\* they keep: as many entries as cameras kept, and every camera kept at exactly
\* one index, two cameras of the same name included
C30_ReorderIsPermutation ==
    (IsConvert /\ pc = "returned") =>
        LET l == Reader(xml)
        IN  /\ Len(l.C) = Cardinality(Retained(xml))
            /\ \A j \in Retained(xml) :
                  Cardinality({k \in 1..Len(l.C) : HoldsCamera(l, k, xml[j])}) = 1

\* a step in which a labeling with object points closes by itself: the window
\* closes and the scatter of the clicked points is deleted
ClosesByItself ==
    /\ lpc = "open" /\ lpc' = "closed"
    /\ objp_in.len # 0
    /\ scat.def /\ ~scat'.def

\* the object points confirmed so far
ConfirmedSoFar == IF objp_confirmed.def THEN objp_confirmed.pts ELSE <<>>

\* C26: when a labeling with object points closes by itself, the image points
\* left for the return are the points clicked, in click order, and the object
\* points are those that were clicked: either the last object point was marked
\* not visible and both are as they were, or it was clicked and the click and
\* the last object point are added
C26_SelfCloseReturnsClickedPoints ==
    [][ClosesByItself =>
          \/ /\ imgp_confirmed'.pts = scat.pts
             /\ objp_confirmed'.pts = ConfirmedSoFar
          \/ /\ imgp_confirmed'.pts = Append(scat.pts, ClickAt(scat.len))
             /\ objp_confirmed'.pts = Append(ConfirmedSoFar, objp_in.pts[objp_in.len])]_vars

\* C28: whenever the clicker returns image points and object points, there are
\* as many of the ones as of the others
C28_ReturnedPairSameLength ==
    (lpc = "returned" /\ returned.kind = "pair") => returned.imgp.len = returned.objp.len

\* C29: a session whose window is closed by hand before 'c' was pressed (no
\* point clicked, nothing confirmed or dismissed) returns nothing, whatever
\* the sessions before it returned
C29_ClosedSessionReturnsNothing ==
    [][(lpc = "shut" /\ ~scat.def /\ lpc' = "returned") => returned'.kind = "None"]_vars

\* C27: in a labeling with object points and clicks alone, when k clicked
\* points are shown the object points confirmed are the first k object
\* points, in order
C27_RemainingPointsPairedInOrder ==
    (lpc = "open" /\ scat.def /\ objp_in.len # 0) =>
        ConfirmedSoFar = [j \in 1..scat.len |-> objp_in.pts[j]]

=============================================================================
